---- MODULE Spec2Model ----
(***************************************************************************)
(* Model of the recap-canvas summarization and question-answering core:    *)
(*   summarizeSelection  (src/src/ai/summarize.ts, second module, 103-289)  *)
(*   generateQaAnswer    (src/src/components/Canvas.tsx, 492-615)           *)
(* Text is modelled by TLA+ strings, scanned character by character the    *)
(* way the JavaScript string and RegExp operations scan them.              *)
(***************************************************************************)
EXTENDS Integers, Sequences, FiniteSets, TLC

(***************************************************************************)
(* Bounds of the model.                                                    *)
(***************************************************************************)
\* Longest block list handed to summarizeSelection.
MaxBlocks == 3
\* Longest explicit scope list handed to generateQaAnswer.
MaxScope == 1

(***************************************************************************)
(* Characters.  The module is ASCII; three non-ASCII literals of the       *)
(* source are represented by ASCII strings of the same length in UTF-16    *)
(* code units, none of which occurs in any modelled text.                  *)
(***************************************************************************)
\* U+2022 (bullet), one code unit.
Bullet == "*"
\* U+2026 (horizontal ellipsis), one code unit.
Ellipsis == "~"
\* The three code units U+201A U+00C4 U+00A2 that Canvas.tsx uses as its bullet.
QaBullet == "#A$"

Ch(s, i) == SubSeq(s, i, i)

WhiteSpace == {" ", "\n", "\t", "\r"}

IsWs(s, i) == Ch(s, i) \in WhiteSpace

UpperChars == "ABCDEFGHIJKLMNOPQRSTUVWXYZ"
LowerChars == "abcdefghijklmnopqrstuvwxyz"
DigitChars == "0123456789"
\* The printable ASCII characters 32..95 and 97..126, in code order.
AsciiLow == " !\"#$%&'()*+,-./0123456789:;<=>?@ABCDEFGHIJKLMNOPQRSTUVWXYZ[\\]^_"
AsciiHigh == "abcdefghijklmnopqrstuvwxyz{|}~"

CharsOf(s) == {Ch(s, i) : i \in 1..Len(s)}

\* UTF-16 code unit of a printable ASCII character.
CharCodeTable ==
  [c \in CharsOf(AsciiLow) \cup CharsOf(AsciiHigh) |->
     IF c \in CharsOf(AsciiLow)
     THEN 31 + (CHOOSE i \in 1..Len(AsciiLow) : Ch(AsciiLow, i) = c)
     ELSE 96 + (CHOOSE i \in 1..Len(AsciiHigh) : Ch(AsciiHigh, i) = c)]
CharCode(c) == CharCodeTable[c]

LowerTable == [c \in CharsOf(UpperChars) |-> Ch(LowerChars, CHOOSE i \in 1..26 : Ch(UpperChars, i) = c)]
LowerCh(c) == IF c \in DOMAIN LowerTable THEN LowerTable[c] ELSE c

\* \d and \w of a JavaScript RegExp.
DigitSet == CharsOf(DigitChars)
WordSet == CharsOf(UpperChars) \cup CharsOf(LowerChars) \cup CharsOf(DigitChars) \cup {"_"}
IsDigit(s, i) == i >= 1 /\ i <= Len(s) /\ Ch(s, i) \in DigitSet
IsWordCh(s, i) == i >= 1 /\ i <= Len(s) /\ Ch(s, i) \in WordSet

SetMin(S) == CHOOSE x \in S : \A y \in S : x <= y
SetMax(S) == CHOOSE x \in S : \A y \in S : y <= x

\* String.prototype.toLowerCase
RECURSIVE toLowerCase(_)
toLowerCase(s) ==
  CASE Len(s) = 0 -> ""
    [] Len(s) = 1 -> LowerCh(s)
    [] OTHER -> toLowerCase(SubSeq(s, 1, Len(s) \div 2)) \o toLowerCase(SubSeq(s, Len(s) \div 2 + 1, Len(s)))

\* p occurs in s at position i.
At(s, i, p) == i >= 1 /\ i + Len(p) - 1 <= Len(s) /\ SubSeq(s, i, i + Len(p) - 1) = p

\* String.prototype.includes
includes(s, p) == \E i \in 1..(Len(s) - Len(p) + 1) : SubSeq(s, i, i + Len(p) - 1) = p

\* String.prototype.startsWith
startsWith(s, p) == At(s, 1, p)

includesAny(s, ps) == \E p \in ps : includes(s, p)

\* RegExp a.*b : a, then any characters other than line terminators, then b.
includesThen(s, a, b) ==
  \E i \in 1..Len(s) :
     /\ At(s, i, a)
     /\ \E j \in (i + Len(a))..Len(s) :
           /\ At(s, j, b)
           /\ \A k \in (i + Len(a))..(j - 1) : Ch(s, k) \notin {"\n", "\r"}

\* First position at or after i that is not white space (Len(s)+1 when none).
RECURSIVE SkipWs(_, _)
SkipWs(s, i) ==
  IF i > Len(s) THEN Len(s) + 1
  ELSE IF IsWs(s, i) THEN SkipWs(s, i + 1) ELSE i

\* Last position at or before i that is not white space (0 when none).
RECURSIVE SkipWsBack(_, _)
SkipWsBack(s, i) ==
  IF i < 1 THEN 0
  ELSE IF IsWs(s, i) THEN SkipWsBack(s, i - 1) ELSE i

\* RegExp a\s+b\s+c.
includesSpaced(s, a, b, c) ==
  \E i \in 1..Len(s) :
     /\ At(s, i, a)
     /\ LET j == SkipWs(s, i + Len(a))
        IN /\ j > i + Len(a)
           /\ At(s, j, b)
           /\ LET k == SkipWs(s, j + Len(b))
              IN k > j + Len(b) /\ At(s, k, c)

\* String.prototype.trim
trim(s) ==
  LET first == SkipWs(s, 1)
  IN IF first > Len(s) THEN "" ELSE SubSeq(s, first, SkipWsBack(s, Len(s)))

\* s.replace(/\s+/g, ' ') restricted to positions lo..hi.
RECURSIVE CollapseRange(_, _, _)
CollapseRange(s, lo, hi) ==
  CASE lo > hi -> ""
    [] lo = hi -> IF IsWs(s, lo)
                  THEN (IF lo > 1 /\ IsWs(s, lo - 1) THEN "" ELSE " ")
                  ELSE Ch(s, lo)
    [] OTHER -> CollapseRange(s, lo, (lo + hi) \div 2) \o CollapseRange(s, (lo + hi) \div 2 + 1, hi)

collapseWs(s) == CollapseRange(s, 1, Len(s))

\* The characters of s at the positions lo..hi that are not in drop.
RECURSIVE DropRange(_, _, _, _)
DropRange(s, drop, lo, hi) ==
  CASE lo > hi -> ""
    [] lo = hi -> IF lo \in drop THEN "" ELSE Ch(s, lo)
    [] OTHER -> DropRange(s, drop, lo, (lo + hi) \div 2) \o DropRange(s, drop, (lo + hi) \div 2 + 1, hi)

\* s.replace(re, '') where drop holds the positions of the matches of re.
without(s, drop) == IF drop = {} THEN s ELSE DropRange(s, drop, 1, Len(s))

\* The k-th smallest element of a set of integers.
Nth(S, k) == CHOOSE x \in S : Cardinality({y \in S : y < x}) = k - 1

\* String.prototype.split with a one-character separator.
\* The pieces of s between the separator positions seps.
piecesBetween(s, seps) ==
  [k \in 1..(Cardinality(seps) + 1) |->
     SubSeq(s,
            IF k = 1 THEN 1 ELSE Nth(seps, k - 1) + 1,
            IF k = Cardinality(seps) + 1 THEN Len(s) ELSE Nth(seps, k) - 1)]

split(s, sep) == piecesBetween(s, {i \in 1..Len(s) : Ch(s, i) = sep})

\* Array.prototype.join
RECURSIVE join(_, _)
join(seq, sep) ==
  IF Len(seq) = 0 THEN ""
  ELSE IF Len(seq) = 1 THEN seq[1]
  ELSE join(SubSeq(seq, 1, Len(seq) - 1), sep) \o sep \o seq[Len(seq)]

\* Array.prototype.slice(from, to) with 0-based from, exclusive to.
slice(seq, from, to) == SubSeq(seq, from + 1, IF to < Len(seq) THEN to ELSE Len(seq))

\* Lexicographic order on code units, the order of Array.prototype.sort().
StrLess(a, b) ==
  \E k \in 1..(Len(b)) :
     /\ \A j \in 1..(k - 1) : j <= Len(a) /\ Ch(a, j) = Ch(b, j)
     /\ \/ k = Len(a) + 1
        \/ k <= Len(a) /\ CharCode(Ch(a, k)) < CharCode(Ch(b, k))

\* Array.from(new Set(ids)): first occurrences, in order.
uniqueSeq(ids) ==
  LET first == {i \in 1..Len(ids) : \A j \in 1..(i - 1) : ids[j] # ids[i]}
  IN [k \in 1..Cardinality(first) |-> ids[Nth(first, k)]]

\* Array.prototype.sort() on distinct strings.
sortStrings(ids) ==
  [k \in 1..Len(ids) |->
     ids[CHOOSE i \in 1..Len(ids) : Cardinality({j \in 1..Len(ids) : StrLess(ids[j], ids[i])}) = k - 1]]

Range(seq) == {seq[i] : i \in 1..Len(seq)}

(***************************************************************************)
(* summarize.ts: helpers                                                   *)
(***************************************************************************)
\* normalize: text.replace(/\s+/g, ' ').trim()
normalize(text) == trim(collapseWs(text))

\* truncateWords(text, maxWords)
takeWords(words, maxWords) ==
  IF Len(words) <= maxWords
  THEN join(words, " ")
  ELSE join(slice(words, 0, maxWords), " ") \o Ellipsis

\* Variant of truncateWords that keeps one word more than maxWords.
truncateWordsLoose(text, maxWords) == takeWords(split(normalize(text), " "), maxWords + 1)

truncateWords(text, maxWords) == takeWords(split(normalize(text), " "), maxWords)

\* Positions of cleaned that the separator /(?<=[.!?])\s+|;|\n/ consumes.
SeparatorPositions(cleaned) ==
  LET runStart(i) == SetMin({j \in 1..i : \A k \in j..i : IsWs(cleaned, k)})
  IN {i \in 1..Len(cleaned) :
        \/ Ch(cleaned, i) = ";"
        \/ Ch(cleaned, i) = "\n"
        \/ /\ IsWs(cleaned, i)
           /\ runStart(i) > 1
           /\ Ch(cleaned, runStart(i) - 1) \in {".", "!", "?"}}

\* splitCandidates: split, trim every piece, drop the empty pieces.
\* The pieces of cleaned that begin at the positions starts and run over keep, each trimmed.
piecesOf(cleaned, keep, starts) ==
  LET endOf(i) == SetMax({j \in i..Len(cleaned) : \A k \in i..j : k \in keep})
  IN [k \in 1..Cardinality(starts) |-> trim(SubSeq(cleaned, Nth(starts, k), endOf(Nth(starts, k))))]

\* cleaned.split(...) at the separator positions seps, trimmed, without the empty pieces.
splitAt(cleaned, seps) ==
  LET keep == (1..Len(cleaned)) \ seps
  IN SelectSeq(piecesOf(cleaned, keep, {i \in keep : i = 1 \/ (i - 1) \in seps}),
               LAMBDA piece : piece # "")

splitCleaned(cleaned) == IF cleaned = "" THEN <<>> ELSE splitAt(cleaned, SeparatorPositions(cleaned))

splitCandidates(text) == splitCleaned(trim(collapseWs(text)))

VoiceNotePhrase == "voice note transcription"

\* The lower-case pattern p occurs in s at position i, letter case ignored (the flag i of a RegExp).
AtNoCase(s, i, p) ==
  /\ i >= 1
  /\ i + Len(p) - 1 <= Len(s)
  /\ \A k \in 1..Len(p) : LowerCh(Ch(s, i + k - 1)) = Ch(p, k)

\* Last position of a match of /voice note transcription.*?:/i that starts at i, 0 if none.
VoiceNoteEnd(text, i) ==
  IF ~AtNoCase(text, i, VoiceNotePhrase) THEN 0
  ELSE LET from == i + Len(VoiceNotePhrase)
           ends == {j \in from..Len(text) :
                      /\ Ch(text, j) = ":"
                      /\ \A k \in from..(j - 1) : Ch(text, k) \notin {"\n", "\r"}}
       IN IF ends # {} THEN SetMin(ends) ELSE 0

\* Length of a match of /\b\d{1,2}\.\d{1,2}\.\d{2,4}\b/ that starts at i, 0 if none.
DateLength(text, i) ==
  IF ~IsDigit(text, i) \/ IsWordCh(text, i - 1) THEN 0
  ELSE LET fits(a, b, c) ==
             /\ \A k \in i..(i + a - 1) : IsDigit(text, k)
             /\ At(text, i + a, ".")
             /\ \A k \in (i + a + 1)..(i + a + b) : IsDigit(text, k)
             /\ At(text, i + a + b + 1, ".")
             /\ \A k \in (i + a + b + 2)..(i + a + b + c + 1) : IsDigit(text, k)
             /\ ~IsWordCh(text, i + a + b + c + 2)
           found == {t \in (1..2) \X (1..2) \X (2..4) : fits(t[1], t[2], t[3])}
       IN IF found = {} THEN 0
          ELSE LET t == CHOOSE u \in found : TRUE IN t[1] + t[2] + t[3] + 2

\* Positions removed by replace(/voice note transcription.*?:/gi, ''): leftmost matches, not overlapping.
RECURSIVE VoiceNotePositions(_, _)
VoiceNotePositions(text, i) ==
  LET starts == {j \in i..Len(text) : VoiceNoteEnd(text, j) > 0}
  IN IF starts = {} THEN {}
     ELSE LET end == VoiceNoteEnd(text, SetMin(starts))
          IN (SetMin(starts)..end) \cup VoiceNotePositions(text, end + 1)

\* Positions removed by replace(/\b\d{1,2}\.\d{1,2}\.\d{2,4}\b/gi, '').
RECURSIVE DatePositions(_, _)
DatePositions(text, i) ==
  LET starts == {j \in i..Len(text) : DateLength(text, j) > 0}
  IN IF starts = {} THEN {}
     ELSE LET end == SetMin(starts) + DateLength(text, SetMin(starts)) - 1
          IN (SetMin(starts)..end) \cup DatePositions(text, end + 1)

\* .replace(/\b\d{1,2}\.\d{1,2}\.\d{2,4}\b/gi, '').trim()
stripDates(noVoice) == trim(without(noVoice, DatePositions(noVoice, 1)))

stripMetadata(text) == stripDates(without(text, VoiceNotePositions(text, 1)))

\* The tags of one candidate line, in the order the tests push them.
tagsOf(line) ==
  LET lowerCi == toLowerCase(line)
      tag(cond, name) == IF cond THEN <<name>> ELSE <<>>
  IN    tag(includesAny(lowerCi, {"decision", "decided", "choose", "draft"}), "decision")
     \o tag(\/ includesAny(lowerCi, {"constraint", "must", "require", "cannot", "limit", "portable", "modular"})
            \/ includesSpaced(lowerCi, "no", "complete", "darkness"), "constraint")
     \o tag(includesAny(lowerCi, {"risk", "concern", "drop-off", "fragile", "safety"}), "risk")
     \o tag(includesAny(lowerCi, {"open question", "question", "uncertain", "not sure", "tension", "how do", "should"}), "question")
     \o tag(includesAny(lowerCi, {"audience", "kids", "adults", "people"}), "audience")

\* dedupe: the first bullet of every key section|normalized lower-case text.
dedupeKey(b) == b.section \o "|" \o toLowerCase(normalize(b.text))

dedupe(lines) ==
  LET first == {i \in 1..Len(lines) : \A j \in 1..(i - 1) : dedupeKey(lines[j]) # dedupeKey(lines[i])}
  IN [k \in 1..Cardinality(first) |-> lines[Nth(first, k)]]

pickTop(lines, limit) == slice(lines, 0, limit)

\* Sequence of the results of f over seq, concatenated (Array.prototype.flatMap).
RECURSIVE FlatMap(_, _)
FlatMap(f, seq) == IF Len(seq) = 0 THEN <<>> ELSE f[Head(seq)] \o FlatMap(f, Tail(seq))

(***************************************************************************)
(* summarize.ts: summarizeSelection                                        *)
(***************************************************************************)
SectionAbout == "What this seems to be about"
SectionTensions == "Key tensions / open questions"
SectionSecondary == "Secondary considerations"
SectionEvidence == "Best blocks to read next"
\* Variant of sectionOrder with the last two sections exchanged.
sectionOrderSwapped == <<SectionAbout, SectionTensions, SectionEvidence, SectionSecondary>>

sectionOrder == <<SectionAbout, SectionTensions, SectionSecondary, SectionEvidence>>

FallbackLine == "Not enough information from the selected artifacts."
UnknownId == "unknown"

AboutLimit == 2
AboutWords == 20
TensionLimit == 4
TensionWords == 28
SecondaryWords == 22
EvidenceLimit == 3
TopLimit == 3
TopLimitTensions == 4

idsOf(blocks) == [i \in 1..Len(blocks) |-> blocks[i].id]

\* Variant of evidenceIdsOf that keeps only the blocks that can contribute a line.
evidenceIdsOfQuotable(blocks) == idsOf(SelectSeq(blocks, LAMBDA b : b.type = "text" \/ b.type = "link"))

\* evidenceBlockIds
evidenceIdsOf(blocks) == idsOf(blocks)

\* The candidate units: the lines of every text block, then one unit per link block.
\* The tagged units of the lines ls of block blockId.
taggedLines(ls, blockId) ==
  [i \in 1..Len(ls) |-> [text |-> ls[i], blockId |-> blockId, tags |-> tagsOf(ls[i])]]

\* textBlocks.flatMap: the tagged lines of every text block.
textUnitsOf(textBlocks) ==
  FlatMap([i \in 1..Len(textBlocks) |->
             taggedLines(splitCandidates(stripMetadata(textBlocks[i].text)), textBlocks[i].id)],
          [i \in 1..Len(textBlocks) |-> i])

\* linkBlocks.map: one unit per link block.
linkUnitsOf(linkBlocks) ==
  [i \in 1..Len(linkBlocks) |->
     [text |-> linkBlocks[i].label \o " (" \o linkBlocks[i].url \o ")",
      blockId |-> linkBlocks[i].id,
      tags |-> <<"reference">>]]

candidatesOf(blocks) ==
     textUnitsOf(SelectSeq(blocks, LAMBDA b : b.type = "text"))
  \o linkUnitsOf(SelectSeq(blocks, LAMBDA b : b.type = "link"))

textsOf(cands) == [i \in 1..Len(cands) |-> cands[i].text]
blockIdsOf(cands) == [i \in 1..Len(cands) |-> cands[i].blockId]

\* Section 1
aboutTextOf(candidates) ==
  LET aboutCandidates == SelectSeq(candidates, LAMBDA c : Len(c.tags) = 0 \/ "reference" \in Range(c.tags))
      top == slice(aboutCandidates, 0, AboutLimit)
  IN [i \in 1..Len(top) |->
        [section |-> SectionAbout, text |-> truncateWords(top[i].text, AboutWords), blockIds |-> <<top[i].blockId>>]]

\* Variant of groupedTensionsOf that takes the first tension candidate only.
groupedTensionsOfFirst(candidates) ==
  LET tensionCandidates ==
        SelectSeq(candidates, LAMBDA c : Range(c.tags) \cap {"decision", "risk", "constraint", "question"} # {})
      top == slice(tensionCandidates, 0, 1)
  IN IF Len(tensionCandidates) > 0
     THEN << [section |-> SectionTensions,
              text |-> truncateWords(join(textsOf(top), "; "), TensionWords),
              blockIds |-> blockIdsOf(top)] >>
     ELSE <<>>

\* Section 2
groupedTensionsOf(candidates) ==
  LET tensionCandidates ==
        SelectSeq(candidates, LAMBDA c : Range(c.tags) \cap {"decision", "risk", "constraint", "question"} # {})
      top == slice(tensionCandidates, 0, TensionLimit)
  IN IF Len(tensionCandidates) > 0
     THEN << [section |-> SectionTensions,
              text |-> truncateWords(join(textsOf(top), "; "), TensionWords),
              blockIds |-> blockIdsOf(top)] >>
     ELSE <<>>

\* Section 3
secondaryOf(candidates) ==
  LET audience == SelectSeq(candidates, LAMBDA c : "audience" \in Range(c.tags))
      constraints == SelectSeq(candidates, LAMBDA c : "constraint" \in Range(c.tags))
      line(cs) == IF Len(cs) > 0
                  THEN << [section |-> SectionSecondary,
                           text |-> truncateWords(join(textsOf(cs), "; "), SecondaryWords),
                           blockIds |-> blockIdsOf(cs)] >>
                  ELSE <<>>
  IN line(audience) \o line(constraints)

\* Section 4
evidenceEntriesOf(blocks) ==
  LET top == slice(SelectSeq(blocks, LAMBDA b : b.type = "text" \/ b.type = "link"), 0, EvidenceLimit)
  IN [i \in 1..Len(top) |->
        [section |-> SectionEvidence,
         text |-> IF top[i].type = "text" THEN top[i].id \o ": primary notes" ELSE top[i].id \o ": reference link",
         blockIds |-> <<top[i].id>>]]

\* dedupe([...aboutText, ...groupedTensions, ...secondary, ...evidenceEntries])
bulletsFrom(blocks, candidates) ==
  dedupe(aboutTextOf(candidates) \o groupedTensionsOf(candidates) \o secondaryOf(candidates) \o evidenceEntriesOf(blocks))

allBulletsOf(blocks) == bulletsFrom(blocks, candidatesOf(blocks))

\* citationMap: a Map in insertion order, as a sequence of (key, n) entries.
mapHas(map, key) == \E i \in 1..Len(map) : map[i].key = key
\* Map.get, with 0 for undefined.
mapGet(map, key) == IF mapHas(map, key) THEN map[CHOOSE i \in 1..Len(map) : map[i].key = key].n ELSE 0
\* Map.set: a present key keeps its place and takes the new value.
mapSet(map, key, n) ==
  IF mapHas(map, key)
  THEN [i \in 1..Len(map) |-> IF map[i].key = key THEN [key |-> key, n |-> n] ELSE map[i]]
  ELSE Append(map, [key |-> key, n |-> n])

\* Variant of citationKey that joins the list as it is given.
citationKeyRaw(blockIds) == join(blockIds, "|")

\* The key of a block-ID list: deduplicated, sorted, joined by '|'.
citationKey(blockIds) == join(sortStrings(uniqueSeq(blockIds)), "|")

\* Variant of ensureCitationNumber that never reuses a number.
ensureCitationNumberFresh(reg, blockIds) ==
  LET key == citationKey(blockIds)
      set == mapSet(reg.citationMap, key, reg.citationCounter)
  IN [n |-> mapGet(set, key), citationMap |-> set, citationCounter |-> reg.citationCounter + 1]

\* Variant of numberOfKey whose counter advances by two.
numberOfKeySkip(reg, key) ==
  LET existing == mapGet(reg.citationMap, key)
  IN IF existing # 0
     THEN [n |-> existing, citationMap |-> reg.citationMap, citationCounter |-> reg.citationCounter]
     ELSE LET set == mapSet(reg.citationMap, key, reg.citationCounter)
          IN [n |-> mapGet(set, key), citationMap |-> set, citationCounter |-> reg.citationCounter + 2]

\* The number of key in the registry reg = (citationMap, citationCounter), a new one when
\* the key is absent; the result carries the number and the registry afterwards.
numberOfKey(reg, key) ==
  LET existing == mapGet(reg.citationMap, key)
  IN IF existing # 0
     THEN [n |-> existing, citationMap |-> reg.citationMap, citationCounter |-> reg.citationCounter]
     ELSE LET set == mapSet(reg.citationMap, key, reg.citationCounter)
          IN [n |-> mapGet(set, key), citationMap |-> set, citationCounter |-> reg.citationCounter + 1]

\* ensureCitationNumber on the registry reg.
ensureCitationNumber(reg, blockIds) == numberOfKey(reg, citationKey(blockIds))

\* Variant of renderBullet that leaves the line break out of the offset.
renderBulletNoBreak(st, line, reg) ==
  [orderedLines |-> Append(st.orderedLines, line),
   spans |-> Append(st.spans, [start |-> st.offset, end |-> st.offset + Len(line), citationNs |-> <<reg.n>>]),
   citationMap |-> reg.citationMap,
   citationCounter |-> reg.citationCounter,
   offset |-> st.offset + Len(line)]

\* One pass of the rendering loop: the line, its span, and the registry reg after numbering it.
renderBullet(st, line, reg) ==
  [orderedLines |-> Append(st.orderedLines, line),
   spans |-> Append(st.spans, [start |-> st.offset, end |-> st.offset + Len(line), citationNs |-> <<reg.n>>]),
   citationMap |-> reg.citationMap,
   citationCounter |-> reg.citationCounter,
   offset |-> st.offset + Len(line) + 1]

\* The rendering loop over the bullets of one section.
RECURSIVE renderBullets(_, _)
renderBullets(st, bullets) ==
  IF Len(bullets) = 0 THEN st
  ELSE renderBullets(
         renderBullet(st, Bullet \o " " \o Head(bullets).text, ensureCitationNumber(st, Head(bullets).blockIds)),
         Tail(bullets))

\* The rendering loop over sectionOrder.
RECURSIVE renderSections(_, _, _)
renderSections(st, sections, allBullets) ==
  IF Len(sections) = 0 THEN st
  ELSE LET section == Head(sections)
           lines == SelectSeq(allBullets, LAMBDA b : b.section = section)
           heading == section \o ":"
       IN IF Len(lines) = 0
          THEN renderSections(st, Tail(sections), allBullets)
          ELSE renderSections(
                 renderBullets(
                   [st EXCEPT !.orderedLines = Append(@, heading), !.offset = @ + Len(heading) + 1],
                   pickTop(lines, IF section = "Key tensions / decisions in progress" THEN TopLimitTensions ELSE TopLimit)),
                 Tail(sections), allBullets)

\* Variant of fallbackId that always takes the sentinel.
fallbackIdSentinel(blocks) == UnknownId

\* Variant of fallbackId that takes the last block instead of the first.
fallbackIdLast(blocks) == IF Len(blocks) > 0 THEN blocks[Len(blocks)].id ELSE UnknownId

\* The block ID that the fallback line is attributed to.
fallbackId(blocks) == IF Len(blocks) > 0 THEN blocks[1].id ELSE UnknownId

\* Array.prototype.sort((a, b) => a.n - b.n), a stable sort.
sortByN(cs) ==
  LET rank(i) == Cardinality({j \in 1..Len(cs) : cs[j].n < cs[i].n \/ (cs[j].n = cs[i].n /\ j < i)})
  IN [k \in 1..Len(cs) |-> cs[CHOOSE i \in 1..Len(cs) : rank(i) = k - 1]]

titleOf(blocks) == "Summary of " \o ToString(Len(blocks)) \o " artifact" \o (IF Len(blocks) = 1 THEN "" ELSE "s")

\* if (!orderedLines.length): the fallback line, its span and its citation entry.
withFallback(rendered, blocks) ==
  IF Len(rendered.orderedLines) = 0
  THEN [rendered EXCEPT
          !.orderedLines = <<FallbackLine>>,
          !.spans = << [start |-> 0, end |-> Len(FallbackLine), citationNs |-> <<1>>] >>,
          !.citationMap = mapSet(@, fallbackId(blocks), 1)]
  ELSE rendered

\* The returned SummaryContent, from the rendering state final.
summaryContent(blocks, final) ==
  [title |-> titleOf(blocks),
   summaryText |-> join(final.orderedLines, "\n"),
   citations |-> sortByN([i \in 1..Len(final.citationMap) |->
                            [n |-> final.citationMap[i].n, blockIds |-> split(final.citationMap[i].key, "|")]]),
   spans |-> final.spans,
   evidenceBlockIds |-> evidenceIdsOf(blocks)]

summarizeSelection(blocks) ==
  summaryContent(blocks,
    withFallback(
      renderSections(
        [orderedLines |-> <<>>, spans |-> <<>>, citationMap |-> <<>>, citationCounter |-> 1, offset |-> 0],
        sectionOrder, allBulletsOf(blocks)),
      blocks))

(***************************************************************************)
(* Canvas.tsx: generateQaAnswer                                            *)
(***************************************************************************)
\* Variant of scopeFilter that keeps every ID.
scopeFilterKeepAll(ids, scopeIds) == ids

\* ids.filter((id) => scopeSet.has(id))
scopeFilter(ids, scopeIds) == SelectSeq(ids, LAMBDA id : id \in Range(scopeIds))

\* citationMap.get(n) ?? [] of the responder: the last entry numbered n, filtered to the scope.
qaCitationGet(summaryCitations, scopeIds, n) ==
  LET hits == {i \in 1..Len(summaryCitations) : summaryCitations[i].n = n}
  IN IF hits = {} THEN <<>> ELSE scopeFilter(summaryCitations[SetMax(hits)].blockIds, scopeIds)

\* lineEntries: every line of the summary text with the citation numbers of
\* the spans that touch it and the in-scope block IDs of those numbers.
\* The citation numbers of the spans matched by one line.
citationNsOf(matchedSpans) ==
  FlatMap([i \in 1..Len(matchedSpans) |-> matchedSpans[i].citationNs], [i \in 1..Len(matchedSpans) |-> i])

\* One entry of lineEntries, from its line and the citation numbers of its spans.
lineEntry(line, citationNs, scopeIds, summaryCitations) ==
  [line |-> line,
   citationNs |-> citationNs,
   blockIds |-> scopeFilter(
                  FlatMap([i \in 1..Len(citationNs) |-> qaCitationGet(summaryCitations, scopeIds, citationNs[i])],
                          [i \in 1..Len(citationNs) |-> i]),
                  scopeIds)]

\* Variant of lineEntryAt whose overlap test reaches one position past each end of the line.
lineEntryAtNear(line, start, end, scopeIds, spans, summaryCitations) ==
  lineEntry(line,
            citationNsOf(SelectSeq(spans, LAMBDA sp : ~(sp.end < start - 1 \/ sp.start > end + 1))),
            scopeIds, summaryCitations)

\* The entry of the line that occupies start..end of the summary text.
lineEntryAt(line, start, end, scopeIds, spans, summaryCitations) ==
  lineEntry(line,
            citationNsOf(SelectSeq(spans, LAMBDA sp : ~(sp.end < start \/ sp.start > end))),
            scopeIds, summaryCitations)

\* offset before line k: every earlier line has added its length and one for the line break.
RECURSIVE offsetOf(_, _)
offsetOf(lines, k) == IF k = 1 THEN 0 ELSE offsetOf(lines, k - 1) + Len(lines[k - 1]) + 1

\* lines.map: the entry of every line, with its offsets in the joined text.
lineEntriesFrom(lines, scopeIds, spans, summaryCitations) ==
  [k \in 1..Len(lines) |->
     lineEntryAt(lines[k], offsetOf(lines, k), offsetOf(lines, k) + Len(lines[k]), scopeIds, spans, summaryCitations)]

lineEntriesOf(scopeIds, summaryText, spans, summaryCitations) ==
  lineEntriesFrom(split(summaryText, "\n"), scopeIds, spans, summaryCitations)

pickByKeywords(lineEntries, keywords) ==
  SelectSeq(lineEntries, LAMBDA e : includesAny(toLowerCase(e.line), keywords))

\* add: one answer, cited to the in-scope IDs, or to the first scope ID when none is in scope.
add(text, blockIds, scopeIds) ==
  LET ids == scopeFilter(blockIds, scopeIds)
  IN [text |-> text, blockIds |-> IF Len(ids) > 0 THEN ids ELSE slice(scopeIds, 0, 1)]

addEach(entries, scopeIds) == [i \in 1..Len(entries) |-> add(entries[i].line, entries[i].blockIds, scopeIds)]

GoalPhrases ==
  {"main goal", "the goal", "goal", "purpose", "aim", "objective", "intended outcome", "success criteria",
   "what are we trying to do", "what is this for", "why are we doing", "why do this"}

isGoalIntent(normQuestion) == includesAny(normQuestion, GoalPhrases)
\* The tests below are the regular expressions of the chain, which carry the i flag:
\* folded is the question with its case folded.
isAboutIntent(folded) == includesThen(folded, "what", "about") \/ includesAny(folded, {"core idea", "orientation", "one sentence"})
isDecisionIntent(folded) == includesAny(folded, {"decision", "decisions", "postponed", "avoided", "care"})
isConstraintIntent(folded) == includesAny(folded, {"constraint", "assumption", "conflict"})
isStartIntent(folded) == \/ includesThen(folded, "where", "start")
                         \/ includes(folded, "which block")
                         \/ includesThen(folded, "minimum", "read")
isGapIntent(folded) == includesAny(folded, {"missing", "underspecified", "gap", "conflict"})
isShortenIntent(folded) == includesAny(folded, {"shorten", "condense"})
isExpandIntent(folded) == includesAny(folded, {"expand", "rephrase", "checklist"})

GoalFallback == "The main goal is not stated explicitly in the selected blocks."
DecisionFallback == "Not enough decision signals in this scope."
ConstraintFallback == "No explicit constraints found in this scope."
GapFallback == "Gaps are not clearly stated in this scope."
CapabilitiesLine == "I can help with summarizing, extracting, refocusing, navigating, or identifying gaps in this file."
ResidualLine == "Not enough information in the current scope to answer."

\* e.line.replace(/^<bullet>\s*/, '')
stripQaBullet(line) ==
  IF startsWith(line, QaBullet) THEN SubSeq(line, SkipWs(line, Len(QaBullet) + 1), Len(line)) ELSE line

bulletAnswers(lineEntries, limit, scopeIds) ==
  LET picked == slice(SelectSeq(lineEntries, LAMBDA e : startsWith(e.line, QaBullet)), 0, limit)
  IN [i \in 1..Len(picked) |-> add(stripQaBullet(picked[i].line), picked[i].blockIds, scopeIds)]

\* Variant of defaultAnswers that cites the first two scope IDs.
defaultAnswersTwo(scopeIds) == << add(CapabilitiesLine, slice(scopeIds, 0, 2), scopeIds) >>

\* The else branch: the capabilities description.
defaultAnswers(scopeIds) == << add(CapabilitiesLine, slice(scopeIds, 0, 1), scopeIds) >>

\* The decisions branch.
decisionAnswers(lineEntries, scopeIds) ==
  LET dec == pickByKeywords(lineEntries, {"decision", "tension"})
  IN IF Len(dec) > 0 THEN addEach(slice(dec, 0, 4), scopeIds)
     ELSE << add(DecisionFallback, slice(scopeIds, 0, 2), scopeIds) >>

\* The goal branch.
goalAnswers(lineEntries, scopeIds) ==
  LET goalLines == SelectSeq(lineEntries, LAMBDA e :
                     includesAny(toLowerCase(e.line),
                       {"what this seems to be about", "what this file seems to be about",
                        "goal", "purpose", "objective", "aim"}))
  IN IF Len(goalLines) > 0 THEN addEach(slice(goalLines, 0, 2), scopeIds)
     ELSE << add(GoalFallback, IF Len(scopeIds) > 0 THEN slice(scopeIds, 0, 2) ELSE <<>>, scopeIds) >>

\* The what-is-this-about branch.
aboutAnswers(lineEntries, scopeIds) ==
  LET about == pickByKeywords(lineEntries, {"what this seems to be about"})
      picked == IF Len(about) > 0 THEN slice(about, 0, 2) ELSE slice(lineEntries, 0, 2)
  IN addEach(picked, scopeIds)

\* Variant of constraintAnswers whose fallback line cites the whole scope.
constraintAnswersAll(lineEntries, scopeIds) ==
  LET cons == pickByKeywords(lineEntries, {"constraint", "assumption"})
  IN IF Len(cons) > 0 THEN addEach(slice(cons, 0, 4), scopeIds)
     ELSE << add(ConstraintFallback, scopeIds, scopeIds) >>

\* The constraints branch.
constraintAnswers(lineEntries, scopeIds) ==
  LET cons == pickByKeywords(lineEntries, {"constraint", "assumption"})
  IN IF Len(cons) > 0 THEN addEach(slice(cons, 0, 4), scopeIds)
     ELSE << add(ConstraintFallback, slice(scopeIds, 0, 2), scopeIds) >>

\* The where-to-start branch.
startAnswers(lineEntries, scopeIds) ==
  LET refs == pickByKeywords(lineEntries, {"best blocks", "read next"})
      chosen == IF Len(refs) > 0 THEN refs ELSE slice(lineEntries, 0, 3)
  IN addEach(slice(chosen, 0, 3), scopeIds)

\* The gaps branch.
gapAnswers(lineEntries, scopeIds) ==
  LET gaps == pickByKeywords(lineEntries, {"open questions", "gaps", "underspecified", "fragile", "risky"})
  IN IF Len(gaps) > 0 THEN addEach(slice(gaps, 0, 3), scopeIds)
     ELSE << add(GapFallback, slice(scopeIds, 0, 2), scopeIds) >>

\* Variant of intentAnswers that tests the gaps intent before the constraints intent.
intentAnswersGapFirst(normQuestion, folded, scopeIds, lineEntries) ==
  IF isGoalIntent(normQuestion) THEN goalAnswers(lineEntries, scopeIds)
  ELSE IF isAboutIntent(folded) THEN aboutAnswers(lineEntries, scopeIds)
  ELSE IF isDecisionIntent(folded) THEN decisionAnswers(lineEntries, scopeIds)
  ELSE IF isGapIntent(folded) THEN gapAnswers(lineEntries, scopeIds)
  ELSE IF isConstraintIntent(folded) THEN constraintAnswers(lineEntries, scopeIds)
  ELSE IF isStartIntent(folded) THEN startAnswers(lineEntries, scopeIds)
  ELSE IF isShortenIntent(folded) THEN bulletAnswers(lineEntries, 3, scopeIds)
  ELSE IF isExpandIntent(folded) THEN bulletAnswers(lineEntries, 4, scopeIds)
  ELSE defaultAnswers(scopeIds)

\* The intent chain: the answers array after the first matching branch.
intentAnswers(normQuestion, folded, scopeIds, lineEntries) ==
  IF isGoalIntent(normQuestion) THEN goalAnswers(lineEntries, scopeIds)
  ELSE IF isAboutIntent(folded) THEN aboutAnswers(lineEntries, scopeIds)
  ELSE IF isDecisionIntent(folded) THEN decisionAnswers(lineEntries, scopeIds)
  ELSE IF isConstraintIntent(folded) THEN constraintAnswers(lineEntries, scopeIds)
  ELSE IF isStartIntent(folded) THEN startAnswers(lineEntries, scopeIds)
  ELSE IF isGapIntent(folded) THEN gapAnswers(lineEntries, scopeIds)
  ELSE IF isShortenIntent(folded) THEN bulletAnswers(lineEntries, 3, scopeIds)
  ELSE IF isExpandIntent(folded) THEN bulletAnswers(lineEntries, 4, scopeIds)
  ELSE defaultAnswers(scopeIds)

answersOf(normQuestion, scopeIds, lineEntries) ==
  intentAnswers(normQuestion, toLowerCase(normQuestion), scopeIds, lineEntries)

\* The number of key in the registry reg = (citationNumberMap, num), a new one when absent.
numOfKey(reg, key) ==
  LET existing == mapGet(reg.citationNumberMap, key)
  IN IF existing # 0
     THEN [n |-> existing, citationNumberMap |-> reg.citationNumberMap, num |-> reg.num]
     ELSE LET set == mapSet(reg.citationNumberMap, key, reg.num)
          IN [n |-> mapGet(set, key), citationNumberMap |-> set, num |-> reg.num + 1]

\* ensureNum on the registry reg.
ensureNum(reg, ids) == numOfKey(reg, join(sortStrings(uniqueSeq(ids)), "|"))

\* One answer a of answers.map(...): its output line, and the registry reg after numbering it.
numberAnswer(st, a, reg) ==
  [linesOut |-> Append(st.linesOut, QaBullet \o " " \o a.text \o " [" \o ToString(reg.n) \o "]"),
   numbers |-> Append(st.numbers, reg.n),
   citationNumberMap |-> reg.citationNumberMap,
   num |-> reg.num]

\* answers.map(...): the output lines and the registry after numbering every answer.
RECURSIVE numberAnswers(_, _)
numberAnswers(st, answers) ==
  IF Len(answers) = 0 THEN st
  ELSE numberAnswers(numberAnswer(st, Head(answers), ensureNum(st, Head(answers).blockIds)), Tail(answers))

\* The returned answer and citations of the numbered answers; answers and numbers expose
\* the answers array and the number given to each of its entries alongside the returned pair.
qaOutput(answers, numbered) ==
  [answer |-> join(numbered.linesOut, "\n"),
   citations |-> [i \in 1..Len(numbered.citationNumberMap) |->
                    [n |-> numbered.citationNumberMap[i].n,
                     blockIds |-> IF numbered.citationNumberMap[i].key # ""
                                  THEN split(numbered.citationNumberMap[i].key, "|")
                                  ELSE <<>>]],
   answers |-> answers, numbers |-> numbered.numbers]

\* Variant of qaOfAnswers whose registry starts at 2.
qaOfAnswersFromTwo(scopeIds, answers) ==
  IF Len(answers) = 0
  THEN [answer |-> ResidualLine,
        citations |-> << [n |-> 1, blockIds |-> slice(scopeIds, 0, 2)] >>,
        answers |-> <<>>, numbers |-> <<>>]
  ELSE qaOutput(answers,
                numberAnswers([linesOut |-> <<>>, numbers |-> <<>>, citationNumberMap |-> <<>>, num |-> 2], answers))

\* Variant of qaOfAnswers whose residual answer is empty.
qaOfAnswersEmpty(scopeIds, answers) ==
  IF Len(answers) = 0
  THEN [answer |-> "", citations |-> <<>>, answers |-> <<>>, numbers |-> <<>>]
  ELSE qaOutput(answers,
                numberAnswers([linesOut |-> <<>>, numbers |-> <<>>, citationNumberMap |-> <<>>, num |-> 1], answers))

\* The residual fallback when answers is empty, the numbered answers otherwise.
qaOfAnswers(scopeIds, answers) ==
  IF Len(answers) = 0
  THEN [answer |-> ResidualLine,
        citations |-> << [n |-> 1, blockIds |-> slice(scopeIds, 0, 2)] >>,
        answers |-> <<>>, numbers |-> <<>>]
  ELSE qaOutput(answers,
                numberAnswers([linesOut |-> <<>>, numbers |-> <<>>, citationNumberMap |-> <<>>, num |-> 1], answers))

\* Variant of qaOfQuestion without the early return.
qaOfQuestionAlways(normQuestion, scopeIds, lineEntries) ==
  qaOfAnswers(scopeIds, answersOf(normQuestion, scopeIds, lineEntries))

\* The early return on an empty normalized question, the intent chain otherwise.
qaOfQuestion(normQuestion, scopeIds, lineEntries) ==
  IF normQuestion = ""
  THEN [answer |-> "", citations |-> <<>>, answers |-> <<>>, numbers |-> <<>>]
  ELSE qaOfAnswers(scopeIds, answersOf(normQuestion, scopeIds, lineEntries))

\* generateQaAnswer
generateQaAnswer(question, scopeIds, summaryText, spans, summaryCitations) ==
  qaOfQuestion(toLowerCase(trim(question)), scopeIds,
               lineEntriesOf(scopeIds, summaryText, spans, summaryCitations))

(***************************************************************************)
(* Canvas.tsx: the canvas summary                                          *)
(***************************************************************************)
\* ASCII stand-ins for the typographic apostrophe and the dash of the labels.
Apostrophe == "'"
Dash == "-"

TruncateMax == 220

\* truncate of generateCanvasSummary, on the normalized text norm.
truncateNorm(norm) ==
  IF Len(norm) > TruncateMax THEN SubSeq(norm, 1, TruncateMax - 1) \o Ellipsis ELSE norm

truncate(t) == truncateNorm(trim(collapseWs(t)))

\* gather: the trimmed texts of the text blocks that a case-insensitive pattern of alternatives matches.
gather(textBlocks, alternatives) ==
  [i \in 1..Len(SelectSeq(textBlocks, LAMBDA b : includesAny(toLowerCase(b.text), alternatives))) |->
     trim(SelectSeq(textBlocks, LAMBDA b : includesAny(toLowerCase(b.text), alternatives))[i].text)]

blocksOfType(bs, type) == SelectSeq(bs, LAMBDA b : b.type = type)

truncateEach(bs) == [i \in 1..Len(bs) |-> truncate(bs[i].text)]

orElse(texts, fallback) == IF Len(texts) > 0 THEN join(texts, " ") ELSE fallback

LabelAbout == "What this file seems to be about"
LabelExplored == "What" \o Apostrophe \o "s been explored so far"
LabelDecided == "Things that look tentatively decided"
LabelConstraints == "Constraints or boundaries shaping the work"
LabelQuestions == "Open questions or unresolved tensions"
LabelMissing == "What" \o Apostrophe \o "s missing or unclear"

NoBlocksLine == "No blocks on canvas."

\* The sections of the summary of an empty canvas, in insertion order.
emptySections ==
  << [label |-> LabelAbout, value |-> NoBlocksLine],
     [label |-> LabelExplored, value |-> NoBlocksLine],
     [label |-> LabelDecided, value |-> NoBlocksLine],
     [label |-> LabelConstraints, value |-> NoBlocksLine],
     [label |-> LabelQuestions, value |-> NoBlocksLine],
     [label |-> LabelMissing, value |-> "Everything" \o Dash \o "canvas is empty."] >>

\* The sections of the summary of a canvas with the text blocks textBlocks, in insertion order.
sectionsOf(textBlocks) ==
  << [label |-> LabelAbout,
      value |-> IF Len(textBlocks) > 0 THEN truncate(textBlocks[1].text)
                ELSE "Limited information about the overall intent; needs clearer framing."],
     [label |-> LabelExplored,
      value |-> orElse(truncateEach(slice(textBlocks, 1, 3)), "Sparse notes on exploration; needs more articulation.")],
     [label |-> LabelDecided,
      value |-> orElse(gather(textBlocks, {"decision", "decided", "draft"}),
                       "No clear decisions; everything reads as exploratory.")],
     [label |-> LabelConstraints,
      value |-> orElse(gather(textBlocks, {"constraint", "requires", "must", "cannot", "no "}),
                       "Constraints are weakly stated; call out must-haves explicitly.")],
     [label |-> LabelQuestions,
      value |-> orElse(gather(textBlocks, {"question", "uncertain", "uncertainty", "not sure", "tension", "should", "how do"}),
                       "Questions are implicit; make uncertainties explicit.")],
     [label |-> LabelMissing,
      value |-> "Success criteria, explicit user outcomes, and facilitation/flow details are not evident."] >>

\* Object.entries(sections).map(...).join('\n'): one bullet line per section.
sectionsText(sections) ==
  join([i \in 1..Len(sections) |-> QaBullet \o " " \o sections[i].label \o ": " \o sections[i].value], "\n")

EvidenceMax == 8

\* The evidence labels: four text blocks, two images, two links, eight at most.
evidenceLabels(textBlocks, imageBlocks, linkBlocks) ==
  slice([i \in 1..Len(slice(textBlocks, 0, 4)) |-> "block:" \o textBlocks[i].id \o " (text)"]
        \o [i \in 1..Len(slice(imageBlocks, 0, 2)) |->
              "block:" \o imageBlocks[i].id \o " (image) " \o Dash \o " Image present (no caption provided)."]
        \o [i \in 1..Len(slice(linkBlocks, 0, 2)) |->
              "block:" \o linkBlocks[i].id \o " (link) " \o Dash \o " " \o linkBlocks[i].label \o " (" \o linkBlocks[i].url \o ")"],
        0, EvidenceMax)

\* The CanvasSummaryData of the blocks baseBlocks, none of which is a summary.
canvasSummaryOf(baseBlocks) ==
  IF Len(baseBlocks) = 0
  THEN [id |-> "CANVAS-SUMMARY", title |-> "Canvas summary", totalBlocks |-> 0,
        sections |-> emptySections, evidence |-> <<>>,
        summaryText |-> QaBullet \o " " \o NoBlocksLine,
        scope |-> [kind |-> "canvas", blockIds |-> <<>>], qa |-> <<>>, messages |-> <<>>]
  ELSE [id |-> "CANVAS-SUMMARY", title |-> "Canvas summary", totalBlocks |-> Len(baseBlocks),
        sections |-> sectionsOf(blocksOfType(baseBlocks, "text")),
        evidence |-> evidenceLabels(blocksOfType(baseBlocks, "text"), blocksOfType(baseBlocks, "image"),
                                    blocksOfType(baseBlocks, "link")),
        summaryText |-> sectionsText(sectionsOf(blocksOfType(baseBlocks, "text"))),
        scope |-> [kind |-> "canvas", blockIds |-> idsOf(baseBlocks)], qa |-> <<>>, messages |-> <<>>]

generateCanvasSummary(allBlocks) == canvasSummaryOf(SelectSeq(allBlocks, LAMBDA b : b.type # "summary"))

(***************************************************************************)
(* Inputs                                                                  *)
(***************************************************************************)
TextBlock(id, text) == [id |-> id, type |-> "text", text |-> text, label |-> "", url |-> ""]
LinkBlock(id, label, url) == [id |-> id, type |-> "link", text |-> "", label |-> label, url |-> url]
ImageBlock(id) == [id |-> id, type |-> "image", text |-> "", label |-> "", url |-> ""]
SummaryBlock(id) == [id |-> id, type |-> "summary", text |-> "", label |-> "", url |-> ""]

T1 == TextBlock("T1", "Decision draft: ship the list view first.")
T2 == TextBlock("T2", "Open question: how do we handle empty states?")
T3 == TextBlock("T3", "Draft a. Draft b; draft c! Kids must play. Adults must rest.")
T4 == TextBlock("T4", " \n")
L1 == LinkBlock("L1", "spec", "https://x")
I1 == ImageBlock("I1")
S1 == SummaryBlock("S1")

\* The blocks a selection handed to the summarizer is drawn from.
Catalogue == {T1, T2, T3, T4, L1, I1, S1}

\* The blocks of the selections whose summary is then asked about.
AskedCatalogue == {T1, T2, T3, L1, I1}

\* Lists of blocks of the catalogue cat, at most n long.
RECURSIVE BlockLists(_, _)
BlockLists(cat, n) ==
  IF n = 0 THEN {<<>>}
  ELSE LET shorter == BlockLists(cat, n - 1)
       IN shorter \cup {Append(l, b) : l \in {m \in shorter : Len(m) = n - 1}, b \in cat}

\* The lists of distinct blocks of cat, at most MaxBlocks long.
DistinctLists(cat) ==
  {l \in BlockLists(cat, MaxBlocks) : \A i \in 1..Len(l) : \A j \in 1..Len(l) : i # j => l[i] # l[j]}

InputLists == DistinctLists(Catalogue)

AskedLists == DistinctLists(AskedCatalogue)

Questions ==
  {"what decisions have been made?", "banana", " ", "What is the main goal?", "what is this about",
   "Any constraints?", "where do I start?", "what is missing?", "shorten it", "expand this",
   "any conflict?", "what about the goal of decisions", "where to start: shorten or expand the gap"}

\* The block IDs explicit scope lists are drawn from.
ScopePool == {"T1", "L1"}

RECURSIVE IdLists(_)
IdLists(n) ==
  IF n = 0 THEN {<<>>}
  ELSE LET shorter == IdLists(n - 1)
       IN shorter \cup {Append(l, id) : l \in {m \in shorter : Len(m) = n - 1}, id \in ScopePool}

\* The blocks on the canvas of the summary panel, the selections summarized there and the
\* texts typed into its question field.
CanvasBlocks == <<T1, T2, L1, I1>>

PanelSelections == {<<T1>>, <<T1, T2, L1>>}

PanelQuestions == {" ", "banana", "shorten it"}

ScopeLists == {l \in IdLists(MaxScope) : \A i \in 1..Len(l) : \A j \in 1..Len(l) : i # j => l[i] # l[j]}

(***************************************************************************)
(* State machines. Spec: one summarizeSelection call on a block list, then  *)
(* one generateQaAnswer call on its result. SummarizeSpec: the             *)
(* summarizeSelection call alone, on the lists of the whole catalogue.     *)
(***************************************************************************)
VARIABLES
  blocks,     \* the block list handed to summarizeSelection
  summary,    \* the SummaryContent returned, NoValue before the call
  question,   \* the question handed to generateQaAnswer
  scopeIds,   \* the scope handed to generateQaAnswer
  qa,         \* the result of generateQaAnswer, NoValue before the call
  pc          \* "input", "summarized" or "answered"

vars == <<blocks, summary, question, scopeIds, qa, pc>>

\* The summary panel of the canvas (Canvas.tsx): its React state and the two
\* localStorage keys of the panel summaries.
VARIABLES
  panelSummary,     \* the selection summary of the panel, NoValue for null
  canvasSummary,    \* the canvas summary of the panel, NoValue for null
  panelOpen,        \* whether the panel is shown
  qaQuestion,       \* the text of the question field
  storedSelection,  \* localStorage under PANEL_SELECTION_KEY, NoValue when the key is absent
  storedCanvas,     \* localStorage under PANEL_CANVAS_KEY, NoValue when the key is absent
  storageFull       \* whether setItem throws for lack of quota

panelVars == <<panelSummary, canvasSummary, panelOpen, qaQuestion, storedSelection, storedCanvas, storageFull>>

\* The canvas itself (Canvas.tsx, persistence.ts): the snapshot under STORAGE_KEY and the
\* blocks state of the mounted component.
VARIABLES
  storedState,   \* localStorage under STORAGE_KEY, NoValue when the key is absent
  mounted,       \* whether Canvas has been mounted
  canvasBlocks   \* the blocks state of Canvas, empty before the first mount

loadVars == <<storedState, mounted, canvasBlocks>>

\* The summarize endpoint of the demo server (unnamed/part_002).
VARIABLES
  request,       \* the body of the last request handled, NoValue before the first
  response,      \* the response to it
  serviceCalled, \* whether generateSummary was called for it
  requestCount,  \* the entries of requestLog for the client inside the window
  requestLog,    \* requestLog: for every client key the logged requests, oldest first
  apiKey         \* whether OPENAI_API_KEY is set

serverVars == <<request, response, serviceCalled, requestCount, requestLog, apiKey>>

allVars == <<vars, panelVars, loadVars, serverVars>>

NoValue == [none |-> TRUE]

\* The keys of requestLog: the address of a client, 'unknown' for a request without one.
ClientKeys == {"10.0.0.1", "unknown"}
NoLog == [key \in ClientKeys |-> <<>>]

\* The panel before anything is summarized, with nothing stored.
PanelIdle ==
  /\ panelSummary = NoValue
  /\ canvasSummary = NoValue
  /\ panelOpen = FALSE
  /\ qaQuestion = ""
  /\ storedSelection = NoValue
  /\ storedCanvas = NoValue
  /\ storageFull = FALSE
  /\ storedState = NoValue
  /\ mounted = FALSE
  /\ canvasBlocks = <<>>
  /\ request = NoValue
  /\ response = NoValue
  /\ serviceCalled = FALSE
  /\ requestCount = 0
  /\ requestLog = NoLog
  /\ apiKey = FALSE

\* Nothing has been called yet on the block list, one of lists.
InitOn(lists) ==
  /\ blocks \in lists
  /\ summary = NoValue
  /\ question = ""
  /\ scopeIds = <<>>
  /\ qa = NoValue
  /\ pc = "input"
  /\ PanelIdle

Init == InitOn(AskedLists)

SummarizeInit == InitOn(InputLists)

Summarize ==
  /\ pc = "input"
  /\ summary' = summarizeSelection(blocks)
  /\ pc' = "summarized"
  /\ UNCHANGED <<blocks, question, scopeIds, qa, panelVars, loadVars, serverVars>>

Answer(q, scope) ==
  /\ pc = "summarized"
  /\ question' = q
  /\ scopeIds' = scope
  /\ qa' = generateQaAnswer(q, scope, summary.summaryText, summary.spans, summary.citations)
  /\ pc' = "answered"
  /\ UNCHANGED <<blocks, summary, panelVars, loadVars, serverVars>>

Next ==
  \/ Summarize
  \/ \E q \in Questions : \E scope \in ScopeLists \cup {idsOf(blocks)} : Answer(q, scope)

Spec == Init /\ [][Next]_allVars

SummarizeSpec == SummarizeInit /\ [][Summarize]_allVars

(***************************************************************************)
(* Canvas.tsx: the summary panel. Message ids, timestamps and the layout   *)
(* fields of a summary are left out of the records.                        *)
(***************************************************************************)
\* JSON.stringify of a value that JSON.parse gives back.
stringify(value) == [json |-> value]

\* A stored string that JSON.parse rejects.
Unparsable == [text |-> "{"]

\* persistSelectionSummary / persistCanvasSummary: the stored value afterwards; stored is the
\* value before, which stays when setItem throws.
persistSummary(stored, value) ==
  IF value = NoValue THEN NoValue
  ELSE IF storageFull THEN stored ELSE stringify(value)

\* The selection summary that handleSummarize builds from the selected blocks.
newSummaryOf(selected, content) ==
  [type |-> "summary", title |-> content.title, evidenceBlockIds |-> content.evidenceBlockIds,
   summaryText |-> content.summaryText, citations |-> content.citations, spans |-> content.spans,
   scope |-> [kind |-> "selection", blockIds |-> idsOf(selected)], qa |-> <<>>, messages |-> <<>>]

\* The mount effect on PANEL_SELECTION_KEY: the summary restored from raw, NoValue for none.
restoreSelection(raw) ==
  IF raw = NoValue \/ "json" \notin DOMAIN raw THEN NoValue
  ELSE IF "scope" \in DOMAIN raw.json /\ "summaryText" \in DOMAIN raw.json /\ raw.json.summaryText # ""
       THEN raw.json ELSE NoValue

\* The mount effect on PANEL_CANVAS_KEY: the summary restored from raw, NoValue for none.
restoreCanvas(raw) ==
  IF raw = NoValue \/ "json" \notin DOMAIN raw THEN NoValue
  ELSE IF "scope" \notin DOMAIN raw.json THEN NoValue
  ELSE IF "summaryText" \in DOMAIN raw.json THEN raw.json
  ELSE [f \in DOMAIN raw.json \cup {"summaryText"} |->
          IF f = "summaryText" THEN sectionsText(raw.json.sections) ELSE raw.json[f]]

\* The messages of a summary.
userMessage(text) == [role |-> "user", text |-> text]
thinkingMessage == [role |-> "assistant", text |-> "Thinking" \o Ellipsis, citations |-> <<>>]
assistantMessage(result) == [role |-> "assistant", text |-> result.answer, citations |-> result.citations]

\* The summary with the question and the placeholder appended to its messages.
withPending(target, text) == [target EXCEPT !.messages = @ \o <<userMessage(text), thinkingMessage>>]

\* The summary with the last of its messages replaced by the assistant message. The handler
\* reads the messages of the summary of the render it was created in, which the pending
\* update has not changed.
withAnswer(target, result) ==
  [target EXCEPT !.messages = SubSeq(@, 1, Len(@) - 1) \o <<assistantMessage(result)>>]

\* generateQaAnswer on the target summary; a canvas summary has no spans and no citations.
answerFor(q, target) ==
  generateQaAnswer(q, target.scope.blockIds, target.summaryText,
                   IF "spans" \in DOMAIN target THEN target.spans ELSE <<>>,
                   IF "citations" \in DOMAIN target THEN target.citations ELSE <<>>)

\* The summary when the handler returns: with the pending messages when the answer is
\* empty, with the answer otherwise.
afterAsk(target, text, result) ==
  IF result.answer = "" THEN withPending(target, text) ELSE withAnswer(target, result)

\* The stored value when the handler returns: the pending summary is persisted, then, when
\* the answer is not empty, the summary with the answer.
storedAfterAsk(stored, target, text, result) ==
  IF result.answer = "" THEN persistSummary(stored, withPending(target, text))
  ELSE persistSummary(persistSummary(stored, withPending(target, text)), withAnswer(target, result))

PanelInit ==
  /\ blocks = CanvasBlocks
  /\ summary = NoValue
  /\ question = ""
  /\ scopeIds = <<>>
  /\ qa = NoValue
  /\ pc = "input"
  /\ panelSummary = NoValue
  /\ canvasSummary = NoValue
  /\ panelOpen = FALSE
  /\ qaQuestion = ""
  /\ storedSelection \in {NoValue, Unparsable}
  /\ storedCanvas \in {NoValue, Unparsable}
  /\ storageFull \in BOOLEAN
  /\ storedState = NoValue
  /\ mounted = FALSE
  /\ canvasBlocks = <<>>
  /\ request = NoValue
  /\ response = NoValue
  /\ serviceCalled = FALSE
  /\ requestCount = 0
  /\ requestLog = NoLog
  /\ apiKey = FALSE

\* Variant of handleSummarize that leaves the canvas summary in place.
handleSummarizeKeepCanvas(selected) ==
  /\ Len(selected) >= 1
  /\ panelSummary' = newSummaryOf(selected, summarizeSelection(selected))
  /\ canvasSummary' = canvasSummary
  /\ qaQuestion' = ""
  /\ storedSelection' = persistSummary(storedSelection, panelSummary')
  /\ panelOpen' = TRUE
  /\ UNCHANGED <<storedCanvas, storageFull, vars, loadVars, serverVars>>

\* handleSummarize on the selected blocks.
handleSummarize(selected) ==
  /\ Len(selected) >= 1
  /\ panelSummary' = newSummaryOf(selected, summarizeSelection(selected))
  /\ canvasSummary' = NoValue
  /\ qaQuestion' = ""
  /\ storedSelection' = persistSummary(storedSelection, panelSummary')
  /\ panelOpen' = TRUE
  /\ UNCHANGED <<storedCanvas, storageFull, vars, loadVars, serverVars>>

\* The Summarize canvas button.
SummarizeCanvasClick ==
  /\ panelSummary' = NoValue
  /\ canvasSummary' = generateCanvasSummary(blocks)
  /\ qaQuestion' = ""
  /\ storedCanvas' = persistSummary(storedCanvas, canvasSummary')
  /\ panelOpen' = TRUE
  /\ UNCHANGED <<storedSelection, storageFull, vars, loadVars, serverVars>>

\* The panel and its question field are rendered.
PanelShown == panelOpen /\ (panelSummary # NoValue \/ canvasSummary # NoValue)

\* onChange of the question field.
QuestionChange(text) ==
  /\ PanelShown
  /\ qaQuestion' = text
  /\ UNCHANGED <<panelSummary, canvasSummary, panelOpen, storedSelection, storedCanvas, storageFull, vars, loadVars, serverVars>>

\* The Ask button on a selection summary.
AskSelection ==
  /\ panelSummary' = afterAsk(panelSummary, trim(qaQuestion), answerFor(qaQuestion, panelSummary))
  /\ storedSelection' = storedAfterAsk(storedSelection, panelSummary, trim(qaQuestion),
                                       answerFor(qaQuestion, panelSummary))
  /\ qaQuestion' = IF answerFor(qaQuestion, panelSummary).answer = "" THEN qaQuestion ELSE ""
  /\ UNCHANGED <<canvasSummary, storedCanvas>>

\* The Ask button on a canvas summary.
AskCanvas ==
  /\ canvasSummary' = afterAsk(canvasSummary, trim(qaQuestion), answerFor(qaQuestion, canvasSummary))
  /\ storedCanvas' = storedAfterAsk(storedCanvas, canvasSummary, trim(qaQuestion),
                                    answerFor(qaQuestion, canvasSummary))
  /\ qaQuestion' = IF answerFor(qaQuestion, canvasSummary).answer = "" THEN qaQuestion ELSE ""
  /\ UNCHANGED <<panelSummary, storedSelection>>

\* The Ask button.
AskClick ==
  /\ PanelShown
  /\ IF trim(qaQuestion) = ""
     THEN UNCHANGED <<panelSummary, canvasSummary, qaQuestion, storedSelection, storedCanvas>>
     ELSE IF panelSummary # NoValue
          THEN AskSelection
          ELSE AskCanvas
  /\ UNCHANGED <<panelOpen, storageFull, vars, loadVars, serverVars>>

\* The Close button of the panel.
CloseClick ==
  /\ PanelShown
  /\ panelSummary' = NoValue
  /\ canvasSummary' = NoValue
  /\ qaQuestion' = ""
  /\ storedSelection' = persistSummary(storedSelection, NoValue)
  /\ panelOpen' = FALSE
  /\ UNCHANGED <<storedCanvas, storageFull, vars, loadVars, serverVars>>

\* The Escape key: handleEscape hides the panel and keeps its summaries.
handleEscape ==
  /\ panelOpen' = FALSE
  /\ UNCHANGED <<panelSummary, canvasSummary, qaQuestion, storedSelection, storedCanvas, storageFull,
                 vars, loadVars, serverVars>>

\* A reload of the page: the state of a fresh mount, and the two mount effects.
Reload ==
  /\ panelSummary' = restoreSelection(storedSelection)
  /\ canvasSummary' = restoreCanvas(storedCanvas)
  /\ panelOpen' = FALSE
  /\ qaQuestion' = ""
  /\ UNCHANGED <<storedSelection, storedCanvas, storageFull, vars, loadVars, serverVars>>

PanelNext ==
  \/ \E selected \in PanelSelections : handleSummarize(selected)
  \/ SummarizeCanvasClick
  \/ \E text \in PanelQuestions : QuestionChange(text)
  \/ AskClick
  \/ CloseClick
  \/ handleEscape
  \/ Reload

PanelSpec == PanelInit /\ [][PanelNext]_allVars

(***************************************************************************)
(* persistence.ts and the initial blocks of Canvas. A stored string is     *)
(* [text |-> s] when JSON.parse rejects it and [json |-> v] with v the     *)
(* value JSON.parse returns otherwise; a parsed value carries its kind.    *)
(***************************************************************************)
SCHEMA_VERSION == 1

Undefined == [kind |-> "undefined"]
JsonNull == [kind |-> "null"]
JsonNumber(n) == [kind |-> "number", num |-> n]
JsonString(str) == [kind |-> "string", str |-> str]
JsonArray(items) == [kind |-> "array", items |-> items]
JsonObject(fields) == [kind |-> "object", fields |-> fields]

\* The empty string under the key.
EmptyText == [text |-> ""]

\* !parsed: null, 0 and the empty string are falsy.
isFalsy(parsed) ==
  \/ parsed.kind = "null"
  \/ parsed.kind = "number" /\ parsed.num = 0
  \/ parsed.kind = "string" /\ parsed.str = ""

\* parsed.schemaVersion !== SCHEMA_VERSION
versionDiffers(parsed) ==
  \/ parsed.kind # "object"
  \/ "schemaVersion" \notin DOMAIN parsed.fields
  \/ parsed.fields.schemaVersion.kind # "number"
  \/ parsed.fields.schemaVersion.num # SCHEMA_VERSION

\* !Array.isArray(parsed.blocks)
blocksNotArray(parsed) ==
  \/ parsed.kind # "object"
  \/ "blocks" \notin DOMAIN parsed.fields
  \/ parsed.fields.blocks.kind # "array"

\* Variant of loadState that accepts every schema version.
loadStateAnyVersion(raw) ==
  IF raw = NoValue \/ raw = EmptyText THEN NoValue
  ELSE IF "json" \notin DOMAIN raw THEN NoValue
  ELSE IF isFalsy(raw.json) \/ blocksNotArray(raw.json) THEN NoValue
  ELSE raw.json.fields.blocks

\* loadState: the stored array of blocks, NoValue for null. JSON.parse throws on a string it
\* rejects, and the catch clause returns null.
loadState(raw) ==
  IF raw = NoValue \/ raw = EmptyText THEN NoValue
  ELSE IF "json" \notin DOMAIN raw THEN NoValue
  ELSE IF isFalsy(raw.json) \/ versionDiffers(raw.json) \/ blocksNotArray(raw.json) THEN NoValue
  ELSE raw.json.fields.blocks

\* JSON.stringify of a block: a member whose value is undefined is left out.
stringifyBlock(b) == [f \in {g \in DOMAIN b : ~(g = "height" /\ b[g] = Undefined)} |-> b[f]]
stringifyBlocks(bs) == [i \in 1..Len(bs) |-> stringifyBlock(bs[i])]

\* saveState: the value under the key afterwards; it stays when setItem throws.
saveState(stored, bs) ==
  IF storageFull THEN stored
  ELSE [json |-> JsonObject([schemaVersion |-> JsonNumber(SCHEMA_VERSION), blocks |-> JsonArray(stringifyBlocks(bs))])]

\* The seed blocks (models/canvas.ts), their texts cut to the first words.
seedBlocks ==
  << TextBlock("T-301", "Early concept: an interactive workshop"),
     TextBlock("T-302", "Open question: should participants receive light prompts"),
     TextBlock("T-303", "Voice note transcription (10.09.2024, Jane Doe)"),
     ImageBlock("IMG-82"),
     LinkBlock("L-22", "teamLab Borderless (Tokyo)", "https://www.teamlab.art/e/borderless/"),
     TextBlock("T-304", "MEETING NOTES (raw, unfiltered)") >>

\* b.type !== 'summary' || b.summaryText
keepsBlock(b) == b.type # "summary" \/ ("summaryText" \in DOMAIN b /\ b.summaryText # "")

\* A summary block with scope, qa and messages defaulted; any other block as it is.
withDefaults(b) ==
  IF b.type # "summary" THEN b
  ELSE [f \in DOMAIN b \cup {"scope", "qa", "messages"} |->
          IF f \in DOMAIN b THEN b[f]
          ELSE IF f = "scope"
               THEN [kind |-> "selection",
                     blockIds |-> IF "evidenceBlockIds" \in DOMAIN b THEN b.evidenceBlockIds ELSE <<>>]
               ELSE <<>>]

\* Variant of initialBlocks that takes the seed blocks for an empty stored list too.
initialBlocksSeedOnEmpty(loaded) ==
  LET base == IF loaded = NoValue \/ loaded.items = <<>> THEN seedBlocks ELSE loaded.items
      kept == SelectSeq(base, keepsBlock)
  IN [i \in 1..Len(kept) |-> withDefaults(kept[i])]

\* The initializer of the blocks state.
initialBlocks(loaded) ==
  LET base == IF loaded = NoValue THEN seedBlocks ELSE loaded.items
      kept == SelectSeq(base, keepsBlock)
  IN [i \in 1..Len(kept) |-> withDefaults(kept[i])]

\* A stored summary block with text, without scope, qa and messages.
S2 == [id |-> "S2", type |-> "summary", summaryText |-> "About: x", evidenceBlockIds |-> <<"T1">>]

\* The block arrays of the stored snapshots.
StoredArrays == {<<>>, <<T1>>, <<T1, L1>>, <<S1, T2>>, <<S2, I1>>}

\* The values of the schemaVersion and blocks members of the stored objects.
StoredVersions == {JsonNumber(0), JsonNumber(SCHEMA_VERSION), JsonNumber(2), JsonString("1"), JsonNull}

StoredBlocks == {JsonNull, JsonString("T1"), JsonObject([id |-> JsonString("T1")])} \cup {JsonArray(a) : a \in StoredArrays}

\* The parsed values of the stored snapshots: objects with both members, with one, with
\* none, and values that are no object.
StoredValues ==
  {JsonObject([schemaVersion |-> v, blocks |-> b]) : v \in StoredVersions, b \in StoredBlocks}
  \cup {JsonObject([schemaVersion |-> v]) : v \in StoredVersions}
  \cup {JsonObject([blocks |-> b]) : b \in StoredBlocks}
  \cup {JsonObject([other |-> JsonNull]), JsonNull, JsonNumber(0), JsonNumber(1), JsonString(""),
        JsonString("x"), JsonArray(<<>>)}

\* What the key can hold when the page is opened.
RawSnapshots == {NoValue, EmptyText, Unparsable} \cup {[json |-> v] : v \in StoredValues}

LoadInit ==
  /\ blocks = <<>>
  /\ summary = NoValue
  /\ question = ""
  /\ scopeIds = <<>>
  /\ qa = NoValue
  /\ pc = "input"
  /\ panelSummary = NoValue
  /\ canvasSummary = NoValue
  /\ panelOpen = FALSE
  /\ qaQuestion = ""
  /\ storedSelection = NoValue
  /\ storedCanvas = NoValue
  /\ storageFull \in BOOLEAN
  /\ storedState \in RawSnapshots
  /\ mounted = FALSE
  /\ canvasBlocks = <<>>
  /\ request = NoValue
  /\ response = NoValue
  /\ serviceCalled = FALSE
  /\ requestCount = 0
  /\ requestLog = NoLog
  /\ apiKey = FALSE

\* The page is opened or reloaded: Canvas mounts with the initial blocks, and the effect
\* on blocks saves them.
MountCanvas ==
  /\ mounted' = TRUE
  /\ canvasBlocks' = initialBlocks(loadState(storedState))
  /\ storedState' = saveState(storedState, canvasBlocks')
  /\ UNCHANGED <<vars, panelVars, serverVars>>

LoadSpec == LoadInit /\ [][MountCanvas]_allVars

(***************************************************************************)
(* Canvas.tsx: the block operations of the canvas. Every setBlocks is      *)
(* followed by the effect on blocks that saves them (159-162). Sizes and   *)
(* timestamps of a block are left out of the records.                      *)
(***************************************************************************)
\* Most blocks the add handlers put on the canvas.
MaxCanvas == 2

\* The ids createId can return, and the positions clampPosition can return.
FreshIds == {"N1", "N2"}
Positions == {40}
AddPositions == {0}
PromptInputs == {"", "https://n"}
EditedTexts == {"edited"}

\* { ...b, ...extra }
withFields(b, extra) ==
  [f \in DOMAIN b \cup DOMAIN extra |-> IF f \in DOMAIN extra THEN extra[f] ELSE b[f]]

\* setBlocks and the effect that follows it.
setBlocks(next) ==
  /\ canvasBlocks' = next
  /\ storedState' = saveState(storedState, next)
  /\ mounted' = mounted

canvasIds == {canvasBlocks[i].id : i \in 1..Len(canvasBlocks)}

addTextBlock(id, pos) ==
  /\ mounted /\ Len(canvasBlocks) < MaxCanvas
  /\ setBlocks(Append(canvasBlocks, withFields(TextBlock(id, "New note" \o Ellipsis), [x |-> pos, y |-> pos])))
  /\ UNCHANGED <<vars, panelVars, serverVars>>

addImageBlock(id, pos, url) ==
  /\ mounted /\ Len(canvasBlocks) < MaxCanvas
  /\ IF url = ""
     THEN UNCHANGED loadVars
     ELSE setBlocks(Append(canvasBlocks,
                           withFields(ImageBlock(id), [src |-> url, x |-> pos, y |-> pos, height |-> Undefined])))
  /\ UNCHANGED <<vars, panelVars, serverVars>>

addLinkBlock(id, pos, url, labelInput) ==
  /\ mounted /\ Len(canvasBlocks) < MaxCanvas
  /\ IF url = ""
     THEN UNCHANGED loadVars
     ELSE setBlocks(Append(canvasBlocks,
                           withFields(LinkBlock(id, IF trim(labelInput) = "" THEN url ELSE trim(labelInput), url),
                                      [x |-> pos, y |-> pos])))
  /\ UNCHANGED <<vars, panelVars, serverVars>>

\* The preview of a summary reference: the first 2 lines that start with the bullet, or the
\* first 180 characters of the text when there is none.
previewOf(summaryText) ==
  LET previewLines == SelectSeq(split(summaryText, "\n"), LAMBDA l : startsWith(trim(l), QaBullet))
  IN IF Len(previewLines) > 0 THEN join(slice(previewLines, 0, 2), "\n")
     ELSE SubSeq(summaryText, 1, IF Len(summaryText) < 180 THEN Len(summaryText) ELSE 180)

addSummaryRefBlock(id) ==
  /\ mounted /\ Len(canvasBlocks) < MaxCanvas
  /\ IF panelSummary = NoValue /\ canvasSummary = NoValue
     THEN UNCHANGED loadVars
     ELSE LET shown == IF panelSummary # NoValue THEN panelSummary ELSE canvasSummary
          IN setBlocks(Append(canvasBlocks,
                              [id |-> id, type |-> "summary_ref", title |-> shown.title,
                               preview |-> previewOf(shown.summaryText), scopeBlockIds |-> shown.scope.blockIds]))
  /\ UNCHANGED <<vars, panelVars, serverVars>>

handlePositionChange(id, x, y) ==
  /\ mounted
  /\ setBlocks([i \in 1..Len(canvasBlocks) |->
                  IF canvasBlocks[i].id = id THEN withFields(canvasBlocks[i], [x |-> x, y |-> y]) ELSE canvasBlocks[i]])
  /\ UNCHANGED <<vars, panelVars, serverVars>>

\* handleUpdateBlock with the updater of a text block's editor, which sets the text.
handleUpdateBlock(id, text) ==
  /\ mounted
  /\ setBlocks([i \in 1..Len(canvasBlocks) |->
                  IF canvasBlocks[i].id = id /\ canvasBlocks[i].type = "text"
                  THEN withFields(canvasBlocks[i], [text |-> text]) ELSE canvasBlocks[i]])
  /\ UNCHANGED <<vars, panelVars, serverVars>>

deleteBlocks(ids) ==
  /\ mounted
  /\ IF ids = {}
     THEN UNCHANGED loadVars
     ELSE setBlocks(SelectSeq(canvasBlocks, LAMBDA b : b.id \notin ids))
  /\ UNCHANGED <<vars, panelVars, serverVars>>

\* The summary shown when a reference to it is added.
ShownSummary == newSummaryOf(<<T1>>, summarizeSelection(<<T1>>))

\* The snapshots under the key when the page is opened.
snapshotOf(version, bs) == [json |-> JsonObject([schemaVersion |-> JsonNumber(version), blocks |-> JsonArray(bs)])]
CanvasSnapshots ==
  {NoValue, Unparsable, snapshotOf(2, <<T1>>)} \cup {snapshotOf(SCHEMA_VERSION, a) : a \in StoredArrays}

CanvasInit ==
  /\ blocks = <<>>
  /\ summary = NoValue
  /\ question = ""
  /\ scopeIds = <<>>
  /\ qa = NoValue
  /\ pc = "input"
  /\ panelSummary \in {NoValue, ShownSummary}
  /\ canvasSummary = NoValue
  /\ panelOpen = (panelSummary # NoValue)
  /\ qaQuestion = ""
  /\ storedSelection = NoValue
  /\ storedCanvas = NoValue
  /\ storageFull = FALSE
  /\ storedState \in CanvasSnapshots
  /\ mounted = FALSE
  /\ canvasBlocks = <<>>
  /\ request = NoValue
  /\ response = NoValue
  /\ serviceCalled = FALSE
  /\ requestCount = 0
  /\ requestLog = NoLog
  /\ apiKey = FALSE

CanvasNext ==
  \/ MountCanvas
  \/ \E id \in FreshIds \ canvasIds : \E pos \in AddPositions : addTextBlock(id, pos)
  \/ \E id \in FreshIds \ canvasIds : \E pos \in AddPositions : \E url \in PromptInputs : addImageBlock(id, pos, url)
  \/ \E id \in FreshIds \ canvasIds : \E pos \in AddPositions : \E url \in PromptInputs :
       \E labelInput \in {"", " spec "} : addLinkBlock(id, pos, url, labelInput)
  \/ \E id \in FreshIds \ canvasIds : addSummaryRefBlock(id)
  \/ \E id \in canvasIds : \E pos \in Positions : handlePositionChange(id, pos, pos)
  \/ \E id \in canvasIds : \E text \in EditedTexts : handleUpdateBlock(id, text)
  \/ \E ids \in SUBSET canvasIds : deleteBlocks(ids)

CanvasSpec == CanvasInit /\ [][CanvasNext]_allVars

(***************************************************************************)
(* unnamed/part_002: the summarize endpoint of the demo server. A request  *)
(* body and its members are parsed JSON values.                            *)
(***************************************************************************)
RATE_LIMIT_MAX == 10
SelectionMaxBlocks == 12
ProjectMaxBlocks == 25
MaxTotalLength == 10000

\* The requests of one client handled inside one window.
MaxLogged == 11

\* value[name] of a value that is neither null nor undefined.
member(value, name) ==
  IF value.kind = "object" /\ name \in DOMAIN value.fields THEN value.fields[name] ELSE Undefined

\* Boolean(value)
truthy(value) == value.kind \notin {"undefined", "null"} /\ ~isFalsy(value)

\* String(value) of a string or a number.
toText(value) == IF value.kind = "string" THEN value.str ELSE ToString(value.num)

stringOr(value, default) == IF value.kind = "string" THEN value.str ELSE default

\* [b.text, b.caption, b.label, b.url].filter(Boolean).join(' ').trim()
contentOf(b) ==
  LET parts == SelectSeq(<<member(b, "text"), member(b, "caption"), member(b, "label"), member(b, "url")>>, truthy)
  IN trim(join([i \in 1..Len(parts) |-> toText(parts[i])], " "))

\* The callback of rawBlocks.map.
sanitizeBlock(b) ==
  [id |-> stringOr(member(b, "id"), ""), type |-> stringOr(member(b, "type"), ""), content |-> contentOf(b)]

\* Reading b.text of a null element throws a TypeError.
sanitizeThrows(rawBlocks) == \E i \in 1..Len(rawBlocks.items) : rawBlocks.items[i].kind = "null"

\* sanitizeBlocks on rawBlocks, no element of which is null.
sanitizeBlocks(rawBlocks) ==
  IF rawBlocks.kind # "array" THEN <<>>
  ELSE SelectSeq([i \in 1..Len(rawBlocks.items) |-> sanitizeBlock(rawBlocks.items[i])],
                 LAMBDA b : b.id # "" /\ b.type # "" /\ b.content # "")

RECURSIVE totalLength(_)
totalLength(bs) == IF Len(bs) = 0 THEN 0 ELSE Len(Head(bs).content) + totalLength(Tail(bs))

maxBlocksOf(mode) == IF mode = JsonString("selection") THEN SelectionMaxBlocks ELSE ProjectMaxBlocks

reply(status, error) == [status |-> status, error |-> error, called |-> FALSE, thrown |-> FALSE]

\* The handler once the request has passed the caps: the key test and the service call,
\* which returns a text when serviceOk and throws otherwise.
generateReply(serviceOk) ==
  IF ~apiKey THEN reply(500, "OpenAI API key not configured")
  ELSE IF serviceOk THEN [status |-> 200, error |-> "", called |-> TRUE, thrown |-> FALSE]
  ELSE [status |-> 500, error |-> "Failed to generate summary", called |-> TRUE, thrown |-> FALSE]

\* The handler after the block count tests.
sanitizedReply(rawBlocks, serviceOk) ==
  IF sanitizeThrows(rawBlocks) THEN [status |-> 0, error |-> "TypeError", called |-> FALSE, thrown |-> TRUE]
  ELSE IF Len(sanitizeBlocks(rawBlocks)) = 0 THEN reply(400, "No usable block content")
  ELSE IF totalLength(sanitizeBlocks(rawBlocks)) > MaxTotalLength THEN reply(400, "Input too long (max 10000 chars)")
  ELSE generateReply(serviceOk)

\* The handler of POST /api/summarize on the body, with entries requests of the client
\* logged inside the window, this one included.
summarizeReply(body, entries, serviceOk) ==
  LET mode == member(body, "mode")
      rawBlocks == member(body, "blocks")
  IN IF entries > RATE_LIMIT_MAX THEN reply(429, "Rate limit exceeded")
     ELSE IF ~truthy(mode) \/ (mode # JsonString("selection") /\ mode # JsonString("project"))
     THEN reply(400, "Invalid mode")
     ELSE IF ~truthy(rawBlocks) \/ rawBlocks.kind # "array" \/ Len(rawBlocks.items) = 0
     THEN reply(400, "No blocks provided")
     ELSE IF Len(rawBlocks.items) > maxBlocksOf(mode) THEN reply(400, "Too many blocks")
     ELSE sanitizedReply(rawBlocks, serviceOk)

\* s repeated n times.
RECURSIVE repeat(_, _)
repeat(s, n) ==
  IF n = 0 THEN ""
  ELSE IF n % 2 = 0 THEN LET half == repeat(s, n \div 2) IN half \o half
  ELSE repeat(s, n - 1) \o s

\* x repeated n times as a list.
copies(x, n) == [i \in 1..n |-> x]

RawBlock(id, type, text) ==
  JsonObject([id |-> JsonString(id), type |-> JsonString(type), text |-> JsonString(text)])

UsableBlock == RawBlock("T1", "text", "Decision: ship it.")
BlankBlock == RawBlock("T4", "text", " \n")
HalfBlock == RawBlock("T5", "text", repeat("a", MaxTotalLength \div 2) \o " ")
LinkOnly == JsonObject([id |-> JsonString("L1"), type |-> JsonString("link"),
                        label |-> JsonString("spec"), url |-> JsonString("https://x")])
NumberId == JsonObject([id |-> JsonNumber(7), type |-> JsonString("text"), text |-> JsonNumber(42)])

\* The block members of the request bodies.
RequestBlocks ==
  {JsonArray(copies(UsableBlock, n)) :
     n \in {0, 1, SelectionMaxBlocks, SelectionMaxBlocks + 1, ProjectMaxBlocks, ProjectMaxBlocks + 1}}
  \cup {JsonArray(<<BlankBlock>>), JsonArray(<<NumberId, JsonString("T1")>>), JsonArray(<<LinkOnly, BlankBlock>>),
        JsonArray(<<JsonNull>>), JsonArray(<<UsableBlock, JsonNull>>),
        JsonArray(<<HalfBlock, HalfBlock>>), JsonArray(<<HalfBlock, HalfBlock, LinkOnly>>),
        JsonString("T1"), JsonNull}

RequestModes == {JsonString("selection"), JsonString("project"), JsonString("canvas"), JsonString("")}

\* The request bodies: none, and objects with a mode, with blocks, or with both.
RequestBodies ==
  {JsonObject([mode |-> m, blocks |-> b]) : m \in RequestModes, b \in RequestBlocks}
  \cup {JsonObject([blocks |-> b]) : b \in {JsonArray(<<UsableBlock>>)}}
  \cup {JsonObject([mode |-> m]) : m \in RequestModes}
  \cup {JsonObject([other |-> JsonNull])}

ServerInit ==
  /\ blocks = <<>>
  /\ summary = NoValue
  /\ question = ""
  /\ scopeIds = <<>>
  /\ qa = NoValue
  /\ pc = "input"
  /\ panelSummary = NoValue
  /\ canvasSummary = NoValue
  /\ panelOpen = FALSE
  /\ qaQuestion = ""
  /\ storedSelection = NoValue
  /\ storedCanvas = NoValue
  /\ storageFull = FALSE
  /\ storedState = NoValue
  /\ mounted = FALSE
  /\ canvasBlocks = <<>>
  /\ request = NoValue
  /\ response = NoValue
  /\ serviceCalled = FALSE
  /\ requestCount = 0
  /\ requestLog = NoLog
  /\ apiKey \in BOOLEAN

\* POST /api/summarize with the body: isRateLimited logs the request, then the handler
\* replies. When the handler throws, the framework answers with status 500 (answered) or
\* leaves the request without response, depending on its version.
PostSummarize(body, serviceOk, answered) ==
  /\ requestCount < MaxLogged
  /\ request' = body
  /\ requestCount' = requestCount + 1
  /\ LET r == summarizeReply(body, requestCount + 1, serviceOk)
     IN /\ serviceCalled' = r.called
        /\ response' = IF r.thrown THEN (IF answered THEN reply(500, "Internal Server Error")
                                          ELSE reply(0, "no response"))
                       ELSE r
  /\ UNCHANGED <<requestLog, apiKey, vars, panelVars, loadVars>>

\* RATE_LIMIT_WINDOW_MS pass without a request: the next call finds no entry inside the window.
WindowPasses ==
  /\ requestCount > 0
  /\ requestCount' = 0
  /\ UNCHANGED <<request, response, serviceCalled, requestLog, apiKey, vars, panelVars, loadVars>>

ServerNext ==
  \/ \E body \in RequestBodies : \E serviceOk \in BOOLEAN : \E answered \in BOOLEAN :
       PostSummarize(body, serviceOk, answered)
  \/ WindowPasses

ServerSpec == ServerInit /\ [][ServerNext]_allVars

(***************************************************************************)
(* unnamed/part_002: the rate limiter over both endpoints, with the time   *)
(* of every logged request. An entry holds the age of its timestamp, and   *)
(* remembers whether its request passed the limiter.                       *)
(***************************************************************************)
RATE_LIMIT_WINDOW_MS == 300000

\* The time that passes in one step of the clock.
TickMs == RATE_LIMIT_WINDOW_MS \div 2

\* Most requests the second client sends.
MaxOther == 1

\* req.ip || 'unknown'
clientKey(ip) == IF ip = "" THEN "unknown" ELSE ip

\* Variant of loggedInside that keeps the entries of the last half window only.
loggedInsideHalf(entries) == SelectSeq(entries, LAMBDA e : e.age < TickMs)

\* (requestLog.get(ip) || []).filter((ts) => now - ts < RATE_LIMIT_WINDOW_MS)
loggedInside(entries) == SelectSeq(entries, LAMBDA e : e.age < RATE_LIMIT_WINDOW_MS)

\* The handler of POST /api/ask on the body, with entries requests of the client logged
\* inside the window, this one included.
askReply(body, entries, serviceOk) ==
  LET asked == member(body, "question")
      rawBlocks == member(body, "blocks")
  IN IF entries > RATE_LIMIT_MAX THEN reply(429, "Rate limit exceeded")
     ELSE IF ~truthy(asked) \/ asked.kind # "string" \/ trim(asked.str) = ""
     THEN reply(400, "Question required")
     ELSE IF ~truthy(rawBlocks) \/ rawBlocks.kind # "array" \/ Len(rawBlocks.items) = 0
     THEN reply(400, "No blocks provided")
     ELSE IF Len(rawBlocks.items) > ProjectMaxBlocks THEN reply(400, "Too many blocks (max 25)")
     ELSE LET r == sanitizedReply(rawBlocks, serviceOk)
          IN IF r.called /\ r.status = 500 THEN [r EXCEPT !.error = "Failed to generate answer"] ELSE r

SummarizePath == "/api/summarize"
AskPath == "/api/ask"

\* The reply of the endpoint at path.
replyOf(path, body, entries, serviceOk) ==
  IF path = SummarizePath THEN summarizeReply(body, entries, serviceOk) ELSE askReply(body, entries, serviceOk)

\* A request to path from the client at ip: isRateLimited drops the client's entries
\* that left the window and logs the request, then the handler replies. A handler that
\* throws is answered with status 500 or not at all, as in PostSummarize.
Post(path, ip, body, serviceOk) ==
  LET entries == loggedInside(requestLog[clientKey(ip)])
      r == replyOf(path, body, Len(entries) + 1, serviceOk)
  IN /\ Len(requestLog[clientKey(ip)]) < (IF ip = "" THEN MaxOther ELSE MaxLogged)
     /\ request' = body
     /\ requestCount' = Len(entries) + 1
     /\ requestLog' = [requestLog EXCEPT ![clientKey(ip)] = Append(entries, [age |-> 0, passed |-> r.status # 429])]
     /\ serviceCalled' = r.called
     /\ response' \in (IF r.thrown THEN {reply(500, "Internal Server Error"), reply(0, "no response")} ELSE {r})
     /\ UNCHANGED <<apiKey, vars, panelVars, loadVars>>

SummarizeRequest(ip, body, serviceOk) == Post(SummarizePath, ip, body, serviceOk)

AskRequest(ip, body, serviceOk) == Post(AskPath, ip, body, serviceOk)

\* TickMs pass: every timestamp is that much older. An age is followed up to the window only.
Tick ==
  /\ \E key \in ClientKeys : \E i \in 1..Len(requestLog[key]) : requestLog[key][i].age < RATE_LIMIT_WINDOW_MS
  /\ requestLog' = [key \in ClientKeys |->
                      [i \in 1..Len(requestLog[key]) |->
                         [requestLog[key][i] EXCEPT
                            !.age = IF @ + TickMs < RATE_LIMIT_WINDOW_MS THEN @ + TickMs ELSE RATE_LIMIT_WINDOW_MS]]]
  /\ UNCHANGED <<request, response, serviceCalled, requestCount, apiKey, vars, panelVars, loadVars>>

RequestIps == {"10.0.0.1", ""}
SummarizeBodies == {JsonObject([mode |-> JsonString("selection"), blocks |-> JsonArray(<<UsableBlock>>)]),
                    JsonObject([mode |-> JsonString("canvas"), blocks |-> JsonArray(<<UsableBlock>>)])}
AskBodies == {JsonObject([question |-> JsonString("why?"), blocks |-> JsonArray(<<UsableBlock>>)]),
              JsonObject([question |-> JsonString(" "), blocks |-> JsonArray(<<UsableBlock>>)])}

RateNext ==
  \/ \E ip \in RequestIps : \E body \in SummarizeBodies : \E serviceOk \in BOOLEAN :
       SummarizeRequest(ip, body, serviceOk)
  \/ \E ip \in RequestIps : \E body \in AskBodies : \E serviceOk \in BOOLEAN : AskRequest(ip, body, serviceOk)
  \/ Tick

RateSpec == ServerInit /\ [][RateNext]_allVars

(***************************************************************************)
(* Reading a returned summary and a returned answer                        *)
(***************************************************************************)
Summarized == pc # "input"
Answered == pc = "answered"

\* The lines of the summary text; a bullet line is a line that starts with the bullet.
SummaryLines == split(summary.summaryText, "\n")
IsBulletLine(k) == startsWith(SummaryLines[k], Bullet)
\* The offset of the k-th line in the summary text.
RECURSIVE LineStart(_)
LineStart(k) == IF k = 1 THEN 0 ELSE LineStart(k - 1) + Len(SummaryLines[k - 1]) + 1
\* The spans whose range [start, end) is exactly the k-th line.
SpansOfLine(k) ==
  {i \in 1..Len(summary.spans) :
     summary.spans[i].start = LineStart(k) /\ summary.spans[i].end = LineStart(k) + Len(SummaryLines[k])}
\* The block IDs the citation table lists under number n.
TableIds(n) == UNION {Range(summary.citations[i].blockIds) : i \in {j \in 1..Len(summary.citations) : summary.citations[j].n = n}}
\* The block IDs the citation table attributes to the k-th line (none for a line without span).
LineEvidence(k) == UNION {TableIds(n) : n \in UNION {Range(summary.spans[i].citationNs) : i \in SpansOfLine(k)}}
\* The heading above the k-th line.
HeadingOf(k) == SummaryLines[SetMax({j \in 1..k : ~IsBulletLine(j)})]
\* Every block ID that occurs in the returned citations of the answer.
AnswerCitedIds == UNION {Range(qa.citations[i].blockIds) : i \in 1..Len(qa.citations)}
\* The bullets in the order the rendering loop visits them.
RenderedBullets ==
  LET all == allBulletsOf(blocks)
  IN FlatMap([i \in 1..Len(sectionOrder) |-> pickTop(SelectSeq(all, LAMBDA b : b.section = sectionOrder[i]), TopLimit)],
             [i \in 1..Len(sectionOrder) |-> i])
\* The candidate units of one block that carry a tension tag.
TensionUnits(b) ==
  SelectSeq(candidatesOf(<<b>>), LAMBDA c : Range(c.tags) \cap {"decision", "risk", "constraint", "question"} # {})
HasTag(b, tag) == \E i \in 1..Len(candidatesOf(<<b>>)) : tag \in Range(candidatesOf(<<b>>)[i].tags)

(***************************************************************************)
(* C1                                                                      *)
(***************************************************************************)
\* C1: every block ID in the citations returned by generateQaAnswer is a
\* member of the scope the call was given.
ScopeContainment == Answered => AnswerCitedIds \subseteq Range(scopeIds)

\* An answer with a cited block, over a summary whose table lists a block outside the scope.
ScopeContainmentWitness ==
  /\ Answered
  /\ AnswerCitedIds # {}
  /\ \E i \in 1..Len(summary.citations) : ~(Range(summary.citations[i].blockIds) \subseteq Range(scopeIds))
  /\ Len(qa.answers) > 1

(***************************************************************************)
(* C2                                                                      *)
(***************************************************************************)
\* C2: an answer line taken from a line of the summary is cited only to
\* block IDs that the citation table attributes to that line and that are
\* in the scope.
EvidenceGrounding ==
  Answered =>
    \A i \in 1..Len(qa.answers) :
       LET from == {k \in 1..Len(SummaryLines) : SummaryLines[k] = qa.answers[i].text}
       IN from # {} =>
            \E k \in from : Range(qa.answers[i].blockIds) \subseteq (LineEvidence(k) \cap Range(scopeIds))

(***************************************************************************)
(* C3                                                                      *)
(***************************************************************************)
\* C3 as stated: for every input list, the empty one included, every block
\* ID of every citation entry is in evidenceBlockIds.
CitationIdsInEvidence ==
  Summarized =>
    \A i \in 1..Len(summary.citations) : Range(summary.citations[i].blockIds) \subseteq Range(summary.evidenceBlockIds)

\* C3 amended: for every non-empty input list every block ID of every
\* citation entry is in evidenceBlockIds; for the empty list the table is
\* the single entry 1 holding the sentinel "unknown".
CitationIdsInEvidenceNonEmpty ==
  Summarized =>
    /\ Len(blocks) > 0 =>
         \A i \in 1..Len(summary.citations) : Range(summary.citations[i].blockIds) \subseteq Range(summary.evidenceBlockIds)
    /\ Len(blocks) = 0 => summary.citations = << [n |-> 1, blockIds |-> <<UnknownId>>] >>

\* A non-empty list that reaches the fallback line.
CitationIdsInEvidenceWitness ==
  /\ Summarized
  /\ Len(blocks) > 1
  /\ summary.summaryText = FallbackLine

(***************************************************************************)
(* C4                                                                      *)
(***************************************************************************)
\* C4: every citation number of every span is the n of exactly one entry
\* of the citation table.
SpanNumbersListedOnce ==
  Summarized =>
    \A i \in 1..Len(summary.spans) : \A n \in Range(summary.spans[i].citationNs) :
       Cardinality({j \in 1..Len(summary.citations) : summary.citations[j].n = n}) = 1

\* Two bullet lines that share a citation number, next to one with another number.
SpanNumbersListedOnceWitness ==
  /\ Summarized
  /\ \E i \in 1..Len(summary.spans) : \E j \in 1..Len(summary.spans) :
        i < j /\ summary.spans[i].citationNs = summary.spans[j].citationNs
  /\ Len(summary.citations) > 1

(***************************************************************************)
(* C5                                                                      *)
(***************************************************************************)
\* C5: for a non-empty input list evidenceBlockIds has the length of the
\* input and holds the ID of every input block.
EvidenceKeepsEveryBlock ==
  (Summarized /\ Len(blocks) > 0) =>
    /\ Len(summary.evidenceBlockIds) = Len(blocks)
    /\ Range(summary.evidenceBlockIds) = {blocks[i].id : i \in 1..Len(blocks)}

\* A summary with bullet lines whose input holds a block that contributes no line.
EvidenceKeepsEveryBlockWitness ==
  /\ Summarized
  /\ summary.summaryText # FallbackLine
  /\ \E i \in 1..Len(blocks) : blocks[i].type \in {"image", "summary"}
  /\ \E i \in 1..Len(blocks) : blocks[i].type = "text" /\ trim(blocks[i].text) = ""

(***************************************************************************)
(* C6                                                                      *)
(***************************************************************************)
\* C6: when no section has a line the summary is the fallback line alone,
\* with one span over the whole line numbered 1 and one table entry 1 that
\* holds the first input ID, or "unknown" for the empty input, whose
\* evidenceBlockIds is empty.
FallbackOutput ==
  (pc = "summarized" /\ allBulletsOf(blocks) = <<>>) =>
    /\ summary.summaryText = "Not enough information from the selected artifacts."
    /\ summary.spans = << [start |-> 0, end |-> Len(summary.summaryText), citationNs |-> <<1>>] >>
    /\ summary.citations = << [n |-> 1, blockIds |-> << IF Len(blocks) > 0 THEN blocks[1].id ELSE "unknown" >>] >>
    /\ Len(blocks) = 0 => summary.evidenceBlockIds = <<>>

\* The fallback reached from a list of several blocks.
FallbackOutputWitness ==
  /\ pc = "summarized"
  /\ Len(blocks) > 1
  /\ allBulletsOf(blocks) = <<>>

(***************************************************************************)
(* C7                                                                      *)
(***************************************************************************)
\* The input is a decision-tagged text block, a question-tagged text block and a link block.
DecisionQuestionLink ==
  /\ Len(blocks) = 3
  /\ blocks[1].type = "text" /\ HasTag(blocks[1], "decision")
  /\ blocks[2].type = "text" /\ HasTag(blocks[2], "question")
  /\ blocks[3].type = "link"

\* The summary has one line under "Key tensions / open questions", with one
\* citation number, which the table maps to the first two blocks, and a line
\* under the first or the last heading that the table maps to the link block.
TensionsCiteBothAndLinkCited ==
  /\ \E k \in 1..Len(SummaryLines) :
        /\ IsBulletLine(k) /\ HeadingOf(k) = SectionTensions \o ":"
        /\ \A j \in 1..Len(SummaryLines) : (IsBulletLine(j) /\ HeadingOf(j) = SectionTensions \o ":") => j = k
        /\ Cardinality(SpansOfLine(k)) = 1
        /\ \A i \in SpansOfLine(k) : Len(summary.spans[i].citationNs) = 1
        /\ LineEvidence(k) = {blocks[1].id, blocks[2].id}
  /\ \E k \in 1..Len(SummaryLines) :
        /\ IsBulletLine(k) /\ HeadingOf(k) \in {SectionAbout \o ":", SectionEvidence \o ":"}
        /\ LineEvidence(k) = {blocks[3].id}

\* C7 as stated: for every decision-tagged text block, question-tagged text
\* block and link block the tensions line cites the two text blocks and a
\* line of the first or last section cites the link.
TensionLineCitesBoth == (pc = "summarized" /\ DecisionQuestionLink) => TensionsCiteBothAndLinkCited

\* C7 amended: the same, when the decision-tagged block has at most three
\* units that carry a tension tag (decision, risk, constraint or question).
TensionLineCitesBothWithinFour ==
  (pc = "summarized" /\ DecisionQuestionLink /\ Len(TensionUnits(blocks[1])) <= 3) => TensionsCiteBothAndLinkCited

\* The summary of the three blocks T1, T2, L1.
TensionLineCitesBothWitness ==
  /\ pc = "summarized"
  /\ blocks = <<T1, T2, L1>>
  /\ DecisionQuestionLink
  /\ Len(summary.citations) = 4

(***************************************************************************)
(* C8                                                                      *)
(***************************************************************************)
\* C8: over the summary of T1, T2, L1 with all three in scope, the answer
\* to "what decisions have been made?" is not empty and cites T1 only.
DecisionAnswerCitesOnlyT1 ==
  (/\ Answered
   /\ blocks = <<T1, T2, L1>>
   /\ question = "what decisions have been made?"
   /\ Range(scopeIds) = {"T1", "T2", "L1"}) =>
     /\ qa.answer # ""
     /\ AnswerCitedIds = {"T1"}

(***************************************************************************)
(* C9                                                                      *)
(***************************************************************************)
\* The question is not blank and matches no intent.
MatchesNoIntent(q) ==
  LET norm == toLowerCase(trim(q))
  IN /\ norm # ""
     /\ ~isGoalIntent(norm) /\ ~isAboutIntent(norm) /\ ~isDecisionIntent(norm) /\ ~isConstraintIntent(norm)
     /\ ~isStartIntent(norm) /\ ~isGapIntent(norm) /\ ~isShortenIntent(norm) /\ ~isExpandIntent(norm)

\* C9: a non-blank question that matches no intent is answered by the one
\* capabilities line, numbered 1, with a table of one entry that holds at
\* most one block ID, the first of the scope, and none for the empty scope.
CapabilitiesFallback ==
  (Answered /\ MatchesNoIntent(question)) =>
    /\ qa.answer = QaBullet \o " I can help with summarizing, extracting, refocusing, navigating, or identifying gaps in this file. [1]"
    /\ Len(qa.citations) = 1
    /\ qa.citations[1].n = 1
    /\ Len(qa.citations[1].blockIds) <= 1
    /\ Range(qa.citations[1].blockIds) \subseteq Range(scopeIds)
    /\ Len(scopeIds) = 0 => qa.citations[1].blockIds = <<>>
    /\ Len(scopeIds) > 0 => qa.citations[1].blockIds = <<scopeIds[1]>>

\* "banana" asked with a scope of two blocks over a summary with bullet lines.
CapabilitiesFallbackWitness ==
  /\ Answered
  /\ question = "banana"
  /\ MatchesNoIntent(question)
  /\ Len(scopeIds) = 2
  /\ Len(summary.spans) > 1

(***************************************************************************)
(* C10                                                                     *)
(***************************************************************************)
\* C10: two rendered bullet lines carry the same citation number exactly
\* when their block-ID lists hold the same IDs, whatever the order and the
\* repetitions in the lists.
StableNumbering ==
  (pc = "summarized" /\ summary.summaryText # FallbackLine) =>
    LET rendered == RenderedBullets
    IN /\ Len(summary.spans) = Len(rendered)
       /\ \A i \in 1..Len(rendered) : \A j \in 1..Len(rendered) :
             (summary.spans[i].citationNs = summary.spans[j].citationNs)
               <=> (Range(rendered[i].blockIds) = Range(rendered[j].blockIds))

\* Two lines whose lists differ by repetition share a number, a third line
\* with an unsorted list of two IDs has another.
StableNumberingWitness ==
  /\ pc = "summarized"
  /\ summary.summaryText # FallbackLine
  /\ LET rendered == RenderedBullets
     IN /\ \E i \in 1..Len(rendered) : \E j \in 1..Len(rendered) :
              /\ rendered[i].blockIds # rendered[j].blockIds
              /\ Range(rendered[i].blockIds) = Range(rendered[j].blockIds)
              /\ summary.spans[i].citationNs = summary.spans[j].citationNs
        /\ \E i \in 1..Len(rendered) :
              /\ Len(rendered[i].blockIds) > 1
              /\ sortStrings(uniqueSeq(rendered[i].blockIds)) # uniqueSeq(rendered[i].blockIds)

(***************************************************************************)
(* C11                                                                     *)
(***************************************************************************)
\* The citation number of the i-th span.
SpanN(i) == summary.spans[i].citationNs[1]
\* The numbers of the spans before the i-th.
SeenBefore(i) == {SpanN(j) : j \in 1..(i - 1)}
\* The distinct evidence sets of the rendered lines; the fallback line has one.
EvidenceSetsOf(rendered) == {Range(rendered[i].blockIds) : i \in 1..Len(rendered)}
EvidenceSets ==
  IF summary.summaryText = FallbackLine THEN {{fallbackId(blocks)}}
  ELSE EvidenceSetsOf(RenderedBullets)
\* The citation table lists each of the numbers 1..k once, k the number of sets.
NumbersOneTo(sets) ==
  /\ {summary.citations[i].n : i \in 1..Len(summary.citations)} = 1..Cardinality(sets)
  /\ Len(summary.citations) = Cardinality(sets)

\* C11: the numbers of the citation table are exactly 1..k, k the number of
\* distinct evidence sets of the rendered lines, each listed once; the first
\* span has number 1 and every span has a number seen before or the largest
\* number seen before plus one.
FirstUseNumbering ==
  Summarized =>
    /\ NumbersOneTo(EvidenceSets)
    /\ \A i \in 1..Len(summary.spans) :
          /\ Len(summary.spans[i].citationNs) = 1
          /\ SpanN(i) \in SeenBefore(i) \cup {1 + SetMax(SeenBefore(i) \cup {0})}

\* A number used again after a larger number was handed out, in a summary
\* with fewer numbers than spans.
FirstUseNumberingWitness ==
  /\ pc = "summarized"
  /\ Len(summary.citations) > 1
  /\ Len(summary.citations) < Len(summary.spans)
  /\ \E i \in 1..Len(summary.spans) : \E j \in 1..Len(summary.spans) :
        i < j /\ SpanN(j) < SpanN(i)

(***************************************************************************)
(* C12                                                                     *)
(***************************************************************************)
\* The numbers given to the answers before the i-th.
AnswerSeenBefore(i) == {qa.numbers[j] : j \in 1..(i - 1)}
\* The lines of the returned answer.
AnswerLines == split(qa.answer, "\n")
\* The entries of the returned citations numbered n.
AnswerEntries(n) == {i \in 1..Len(qa.citations) : qa.citations[i].n = n}

\* C12: the returned citations are numbered 1, 2, .. k in their order; when
\* answers were produced, k is the number of distinct evidence sets of the
\* answers, numbers are given in first-use order over the answer lines, two
\* answers share a number exactly when their evidence sets are equal, and
\* every line ends with the marker of its number, which has one entry in the
\* returned citations, holding the evidence set of the line.
QaNumbering ==
  Answered =>
    /\ \A i \in 1..Len(qa.citations) : qa.citations[i].n = i
    /\ Len(qa.answers) > 0 =>
         /\ Len(qa.citations) = Cardinality({Range(qa.answers[i].blockIds) : i \in 1..Len(qa.answers)})
         /\ Len(AnswerLines) = Len(qa.answers)
         /\ \A i \in 1..Len(qa.answers) :
               /\ qa.numbers[i] \in AnswerSeenBefore(i) \cup {1 + SetMax(AnswerSeenBefore(i) \cup {0})}
               /\ AnswerLines[i] = QaBullet \o " " \o qa.answers[i].text \o " [" \o ToString(qa.numbers[i]) \o "]"
               /\ Cardinality(AnswerEntries(qa.numbers[i])) = 1
               /\ \A e \in AnswerEntries(qa.numbers[i]) :
                     Range(qa.citations[e].blockIds) = Range(qa.answers[i].blockIds)
               /\ \A j \in 1..Len(qa.answers) :
                     (qa.numbers[i] = qa.numbers[j]) <=> (Range(qa.answers[i].blockIds) = Range(qa.answers[j].blockIds))

\* An answer of two lines with two numbers, one of them a bullet line of the
\* summary that the summary numbers differently.
QaNumberingWitness ==
  /\ Answered
  /\ Len(qa.citations) = 2
  /\ Len(qa.answers) = 2
  /\ \E i \in 1..Len(qa.answers) : \E k \in 1..Len(SummaryLines) :
        /\ qa.answers[i].text = SummaryLines[k]
        /\ IsBulletLine(k)
        /\ \E s \in SpansOfLine(k) : summary.spans[s].citationNs # <<qa.numbers[i]>>

(***************************************************************************)
(* C13                                                                     *)
(***************************************************************************)
\* The summary the panel asks about: the selection summary when there is one.
ActiveSummary == IF panelSummary # NoValue THEN panelSummary ELSE canvasSummary
\* Questions that are empty after trimming.
BlankQuestions == {"", " ", " \t\n "}
\* generateQaAnswer returns the empty answer and no citation for every blank
\* question, on the active summary and every scope.
BlankQuestionAnswer ==
  ActiveSummary # NoValue =>
    \A q \in BlankQuestions : \A scope \in ScopeLists \cup {ActiveSummary.scope.blockIds} :
       /\ generateQaAnswer(q, scope, ActiveSummary.summaryText,
                           IF "spans" \in DOMAIN ActiveSummary THEN ActiveSummary.spans ELSE <<>>,
                           IF "citations" \in DOMAIN ActiveSummary THEN ActiveSummary.citations ELSE <<>>).answer = ""
       /\ generateQaAnswer(q, scope, ActiveSummary.summaryText,
                           IF "spans" \in DOMAIN ActiveSummary THEN ActiveSummary.spans ELSE <<>>,
                           IF "citations" \in DOMAIN ActiveSummary THEN ActiveSummary.citations ELSE <<>>).citations = <<>>

\* C13: for a question that is empty or only white space generateQaAnswer
\* returns the empty answer and an empty citation list, for every scope and
\* summary, and a click on Ask leaves both summaries of the panel, with
\* their messages, as they are.
BlankQuestion ==
  /\ []BlankQuestionAnswer
  /\ [][(AskClick /\ trim(qaQuestion) = "") => UNCHANGED <<panelSummary, canvasSummary>>]_allVars

\* A white-space question typed into the panel of a summary that holds a message.
BlankQuestionWitness ==
  /\ PanelShown
  /\ qaQuestion = " "
  /\ Len(ActiveSummary.messages) > 0


(***************************************************************************)
(* C14                                                                     *)
(***************************************************************************)
\* The tests of the intent chain on the normalized question norm, in the order of the
\* chain; the ninth, the capabilities response, matches every question.
IntentMatches(norm) ==
  << isGoalIntent(norm), isAboutIntent(norm), isDecisionIntent(norm), isConstraintIntent(norm),
     isStartIntent(norm), isGapIntent(norm), isShortenIntent(norm), isExpandIntent(norm), TRUE >>

\* The answers the k-th branch of the chain produces.
IntentBranch(k, lineEntries, scope) ==
  CASE k = 1 -> goalAnswers(lineEntries, scope)
    [] k = 2 -> aboutAnswers(lineEntries, scope)
    [] k = 3 -> decisionAnswers(lineEntries, scope)
    [] k = 4 -> constraintAnswers(lineEntries, scope)
    [] k = 5 -> startAnswers(lineEntries, scope)
    [] k = 6 -> gapAnswers(lineEntries, scope)
    [] k = 7 -> bulletAnswers(lineEntries, 3, scope)
    [] k = 8 -> bulletAnswers(lineEntries, 4, scope)
    [] OTHER -> defaultAnswers(scope)

NormQuestion == toLowerCase(trim(question))

\* The branches whose test is passed in the tuple matches of the tests.
PassedIn(matches) == {k \in 1..9 : matches[k]}

MatchedIntents == PassedIn(IntentMatches(NormQuestion))

\* The branch of the chain that answers the question.
FirstIntent == SetMin(MatchedIntents)

\* The question passes the test of a branch later than the k-th whose answers differ from
\* those of the k-th, which are the answers given.
LaterBranchDiffers(k, matched, lineEntries) ==
  /\ qa.answers = IntentBranch(k, lineEntries, scopeIds)
  /\ \E m \in matched \ {9} : m > k /\ IntentBranch(m, lineEntries, scopeIds) # qa.answers

AskedEntries == lineEntriesOf(scopeIds, summary.summaryText, summary.spans, summary.citations)

\* C14: the answers to a non-blank question are exactly the answers of the earliest
\* branch of the chain goal, about, decisions, constraints, start, gaps, shorten, expand,
\* capabilities whose test the question passes; no later branch adds one.
FirstMatchWins ==
  (Answered /\ NormQuestion # "") =>
    qa.answers = IntentBranch(FirstIntent, AskedEntries, scopeIds)

\* A question passing the tests of two intents whose branches give different answers
\* has been answered with the answers of the earlier one.
FirstMatchWinsWitness ==
  /\ Answered
  /\ NormQuestion # ""
  /\ LaterBranchDiffers(FirstIntent, MatchedIntents, AskedEntries)

(***************************************************************************)
(* C15                                                                     *)
(***************************************************************************)
\* The keywords the k-th branch of the chain selects summary lines by.
IntentKeywords(k) ==
  CASE k = 1 -> {"what this seems to be about", "what this file seems to be about",
                 "goal", "purpose", "objective", "aim"}
    [] k = 2 -> {"what this seems to be about"}
    [] k = 3 -> {"decision", "tension"}
    [] k = 4 -> {"constraint", "assumption"}
    [] k = 5 -> {"best blocks", "read next"}
    [] k = 6 -> {"open questions", "gaps", "underspecified", "fragile", "risky"}
    [] OTHER -> {}

\* The summary lines the k-th branch selects: bullet lines for shorten and expand.
IntentLines(k, lineEntries) ==
  IF k \in {7, 8} THEN SelectSeq(lineEntries, LAMBDA e : startsWith(e.line, QaBullet))
  ELSE pickByKeywords(lineEntries, IntentKeywords(k))

\* The answer text made of the fixed line of the k-th branch alone.
FixedAnswer(k) ==
  CASE k = 1 -> QaBullet \o " " \o GoalFallback \o " [1]"
    [] k = 3 -> QaBullet \o " " \o DecisionFallback \o " [1]"
    [] k = 4 -> QaBullet \o " " \o ConstraintFallback \o " [1]"
    [] k = 6 -> QaBullet \o " " \o GapFallback \o " [1]"
    [] k \in {7, 8} -> ResidualLine
    [] OTHER -> ""

\* The answer q is the fixed line of branch k, cited under number 1 to the first
\* two IDs of scope, or to nothing when scope is empty.
IsFixedAnswer(q, k, scope) ==
  /\ q.answer = FixedAnswer(k)
  /\ Len(q.citations) = 1
  /\ q.citations[1].n = 1
  /\ Range(q.citations[1].blockIds) = Range(slice(scope, 0, 2))
  /\ Len(q.citations[1].blockIds) <= 2

\* The k-th branch, other than capabilities, finds no line among lineEntries.
NoLineMatchedBy(k, lineEntries) == k < 9 /\ Len(IntentLines(k, lineEntries)) = 0

\* A non-blank question was answered by a branch other than capabilities, which found no
\* line of the summary.
NoLineMatched ==
  /\ Answered
  /\ NormQuestion # ""
  /\ NoLineMatchedBy(FirstIntent, AskedEntries)

FixedLineOf(k, lineEntries) == NoLineMatchedBy(k, lineEntries) => IsFixedAnswer(qa, k, scopeIds)

\* C15 as stated: whichever intent other than capabilities is matched, when no line of
\* the summary matches its keywords the answer is a single fixed not-enough-information
\* line attributed to the first (at most 2) IDs of the scope.
FixedLineOnNoMatch == (Answered /\ NormQuestion # "") => FixedLineOf(FirstIntent, AskedEntries)

FixedOrFirstLinesOf(k, lineEntries) ==
  NoLineMatchedBy(k, lineEntries) =>
    IF k \in {2, 5}
    THEN /\ qa.answers = addEach(slice(lineEntries, 0, IF k = 2 THEN 2 ELSE 3), scopeIds)
         /\ Len(qa.answers) >= 1
    ELSE IsFixedAnswer(qa, k, scopeIds)

\* C15, amended: the goal, decisions, constraints and gaps branches answer with their
\* fixed line, and shorten and expand with the residual line, attributed to the first
\* (at most 2) IDs of the scope; the about and start branches answer instead with the
\* first 2 and the first 3 lines of the summary.
FixedLineOrFirstLines ==
  (Answered /\ NormQuestion # "") => FixedOrFirstLinesOf(FirstIntent, AskedEntries)

\* The constraints branch found no line in the summary of three blocks asked about with
\* all three in scope, and its fixed line is cited to the first two.
FixedLineOrFirstLinesWitness ==
  /\ Len(scopeIds) = 3
  /\ NoLineMatched
  /\ FirstIntent = 4
  /\ IsFixedAnswer(qa, 4, scopeIds)
  /\ Len(qa.citations[1].blockIds) = 2

(***************************************************************************)
(* C16                                                                     *)
(***************************************************************************)
\* The text block b has no content: its text is empty or white space only.
HasNoContent(b) == b.type = "text" /\ normalize(b.text) = ""

\* C16: a block whose content is empty or white space only contributes no line to a
\* section of the summary and no entry to its citation table, and stays in
\* evidenceBlockIds. The fallback line, which is no line of a section and is attributed
\* to the first block whatever its content, is left aside.
EmptyBlockContributesNothing ==
  (Summarized /\ summary.summaryText # FallbackLine) =>
    \A i \in 1..Len(blocks) : HasNoContent(blocks[i]) =>
      /\ blocks[i].id \in Range(summary.evidenceBlockIds)
      /\ \A c \in 1..Len(summary.citations) : blocks[i].id \notin Range(summary.citations[c].blockIds)
      /\ \A k \in 1..Len(SummaryLines) : IsBulletLine(k) => blocks[i].id \notin LineEvidence(k)


(***************************************************************************)
(* C17                                                                     *)
(***************************************************************************)
\* The stored value raw is unusable: missing, not parseable, of a schema version other
\* than the current one, or without a block array.
Unusable(raw) ==
  \/ raw = NoValue
  \/ "text" \in DOMAIN raw
  \/ raw.json.kind # "object"
  \/ "schemaVersion" \notin DOMAIN raw.json.fields
  \/ raw.json.fields.schemaVersion # JsonNumber(SCHEMA_VERSION)
  \/ "blocks" \notin DOMAIN raw.json.fields
  \/ raw.json.fields.blocks.kind # "array"

\* loadState returns null for every unusable value the key can hold.
UnusableLoadsNull == \A raw \in RawSnapshots : Unusable(raw) => loadState(raw) = NoValue

\* C17: loadState returns null for a stored value that is missing, not parseable, of
\* another schema version or without a block array, and a canvas mounted on such a value
\* starts from the seed blocks.
UnusableSnapshotIsAbsent ==
  /\ []UnusableLoadsNull
  /\ [][(MountCanvas /\ Unusable(storedState)) => canvasBlocks' = seedBlocks]_allVars

\* The canvas shows the seed blocks over a stored snapshot of another schema version that
\* holds a block array, which a full storage kept in place.
UnusableSnapshotIsAbsentWitness ==
  /\ mounted
  /\ canvasBlocks = seedBlocks
  /\ storedState # NoValue
  /\ "json" \in DOMAIN storedState
  /\ storedState.json.kind = "object"
  /\ DOMAIN storedState.json.fields = {"schemaVersion", "blocks"}
  /\ storedState.json.fields.schemaVersion = JsonNumber(2)
  /\ storedState.json.fields.blocks = JsonArray(<<T1, L1>>)


(***************************************************************************)
(* C18                                                                     *)
(***************************************************************************)
\* The element of a block list has usable content: an ID, a type and content.
IsUsable(b) ==
  /\ b.kind = "object"
  /\ stringOr(member(b, "id"), "") # ""
  /\ stringOr(member(b, "type"), "") # ""
  /\ contentOf(b) # ""

\* The usable elements of the block list of the body.
UsableItems(body) == SelectSeq(member(body, "blocks").items, IsUsable)

\* The content lengths of the elements bs, summed.
RECURSIVE ContentLength(_)
ContentLength(bs) == IF Len(bs) = 0 THEN 0 ELSE Len(contentOf(Head(bs))) + ContentLength(Tail(bs))

\* The request body meets every condition of the endpoint.
ValidRequest(body) ==
  /\ member(body, "mode") \in {JsonString("selection"), JsonString("project")}
  /\ member(body, "blocks").kind = "array"
  /\ Len(member(body, "blocks").items) >= 1
  /\ Len(member(body, "blocks").items) <=
       (IF member(body, "mode") = JsonString("selection") THEN SelectionMaxBlocks ELSE ProjectMaxBlocks)
  /\ Len(UsableItems(body)) >= 1
  /\ ContentLength(UsableItems(body)) <= MaxTotalLength

\* C18: the text-generation service is called only for a request that meets every
\* condition (mode, block count within the cap of the mode, a usable block, total content
\* within 10,000 characters), and a request that misses one is answered with a 4xx status
\* without a call of the service.
SummarizeGuard ==
  request # NoValue =>
    /\ serviceCalled => ValidRequest(request)
    /\ ~ValidRequest(request) => (response.status \in 400..499 /\ ~serviceCalled)


(***************************************************************************)
(* C19                                                                     *)
(***************************************************************************)
\* C19: after the Close button, whichever summary was shown, the panel holds no summary
\* and a reload restores none from storage.
CloseDestroysSummary ==
  [][CloseClick =>
       /\ panelSummary' = NoValue
       /\ canvasSummary' = NoValue
       /\ restoreSelection(storedSelection') = NoValue
       /\ restoreCanvas(storedCanvas') = NoValue]_allVars


(***************************************************************************)
(* C20                                                                     *)
(***************************************************************************)
\* The headings in the order of the rendered structure.
OrderedHeadings ==
  << "What this seems to be about:", "Key tensions / open questions:",
     "Secondary considerations:", "Best blocks to read next:" >>

\* The position of the line among the headings, 0 when it is none of them.
HeadingIndex(line) ==
  IF \E i \in 1..Len(OrderedHeadings) : line = OrderedHeadings[i]
  THEN CHOOSE i \in 1..Len(OrderedHeadings) : line = OrderedHeadings[i]
  ELSE 0

\* The positions in lines of the lines without and with the bullet marker.
HeadingLines(lines) == {k \in 1..Len(lines) : ~startsWith(lines[k], Bullet)}

BulletLines(lines) == {k \in 1..Len(lines) : startsWith(lines[k], Bullet)}

\* The headings at the positions heads of lines are section headings in the fixed order,
\* each at most once and each followed at once by a bullet line.
HeadingsInOrder(lines, heads) ==
  /\ 1 \in heads
  /\ \A k \in heads :
       /\ HeadingIndex(lines[k]) # 0
       /\ k + 1 \in 1..Len(lines) \ heads
  /\ \A k \in heads : \A m \in heads : k < m => HeadingIndex(lines[k]) < HeadingIndex(lines[m])

\* The lines at the positions bullets of lines are the bullets rendered, in their order,
\* each prefixed by the bullet marker and under the heading of its section.
BulletsUnderHeadings(lines, heads, bullets, rendered) ==
  /\ Cardinality(bullets) = Len(rendered)
  /\ \A j \in 1..Len(rendered) :
       /\ lines[Nth(bullets, j)] = Bullet \o " " \o rendered[j].text
       /\ lines[SetMax({k \in heads : k < Nth(bullets, j)})] = rendered[j].section \o ":"

StructureOf(lines, rendered) ==
  /\ HeadingsInOrder(lines, HeadingLines(lines))
  /\ BulletsUnderHeadings(lines, HeadingLines(lines), BulletLines(lines), rendered)

\* C20: the lines of a summary other than the fallback line are headings and bullet
\* lines: the headings are section headings in the fixed order, each at most once and
\* each followed at once by a bullet line; the bullet lines are the bullets of the
\* sections in rendering order, each prefixed by the bullet marker and under the heading
\* of its own section.
RenderedStructure ==
  (Summarized /\ summary.summaryText # FallbackLine) => StructureOf(SummaryLines, RenderedBullets)

\* The lines have the first, second and fourth heading, and two bullet lines in a row.
ThreeHeadings(lines) ==
  /\ {HeadingIndex(lines[k]) : k \in HeadingLines(lines)} = {1, 2, 4}
  /\ \E k \in 2..Len(lines) : startsWith(lines[k - 1], Bullet) /\ startsWith(lines[k], Bullet)

\* A summary with the first, second and fourth heading and none for the third section,
\* which has no bullet, and with several bullet lines under one heading.
RenderedStructureWitness ==
  /\ Summarized
  /\ ThreeHeadings(SummaryLines)
  /\ \A i \in 1..Len(RenderedBullets) : RenderedBullets[i].section # SectionSecondary


(***************************************************************************)
(* C21                                                                     *)
(***************************************************************************)
\* The offset of the k-th of lines in their text joined by line breaks.
RECURSIVE StartOf(_, _)
StartOf(lines, k) == IF k = 1 THEN 0 ELSE StartOf(lines, k - 1) + Len(lines[k - 1]) + 1

\* The span covers exactly the k-th of lines in text.
CoversLine(span, text, lines, k) ==
  /\ span.start = StartOf(lines, k)
  /\ span.end = span.start + Len(lines[k])
  /\ SubSeq(text, span.start + 1, span.end) = lines[k]

\* Every span covers one whole line that is no heading, every such line has one span, a
\* heading has none, and each span ends before the next starts.
SpansCoverLines(spans, text, lines) ==
  /\ \A i \in 1..Len(spans) :
       \E k \in 1..Len(lines) : HeadingIndex(lines[k]) = 0 /\ CoversLine(spans[i], text, lines, k)
  /\ \A k \in 1..Len(lines) :
       Cardinality({i \in 1..Len(spans) : CoversLine(spans[i], text, lines, k)})
         = (IF HeadingIndex(lines[k]) = 0 THEN 1 ELSE 0)
  /\ \A i \in 1..(Len(spans) - 1) : spans[i].end < spans[i + 1].start

\* C21: the characters [start, end) of every span are one whole rendered line (a bullet
\* line, or the fallback line) without line break; every such line has exactly one span,
\* a heading line has none, and the spans are in text order, each ending strictly before
\* the next starts.
SpanOffsets == Summarized => SpansCoverLines(summary.spans, summary.summaryText, SummaryLines)

\* A summary of several sections with at least three spans, one of them on the last line.
SpanOffsetsWitness ==
  /\ Summarized
  /\ Len(summary.spans) >= 3
  /\ Cardinality({HeadingIndex(SummaryLines[k]) : k \in HeadingLines(SummaryLines)}) >= 3
  /\ summary.spans[Len(summary.spans)].end = Len(summary.summaryText)

\* ---------------------------------------------------------------------------
\* C22: truncation of the rendered bullet texts (summarize.ts truncateWords, 115-120)
\* ---------------------------------------------------------------------------

\* Texts of a chosen number of words, none of which carries a tag keyword.
PlainWords ==
  <<"a", "b", "c", "d", "e", "f", "g", "h", "i", "j", "k", "l", "m", "n",
    "o", "p", "q", "r", "s", "t", "u", "v", "w", "x", "y", "z", "aa", "bb">>
WordsText(first, n) == join(<<first>> \o SubSeq(PlainWords, 1, n - 1), " ")

A20 == TextBlock("A20", WordsText("zz", 20))
A21 == TextBlock("A21", WordsText("yy", 21))
K22 == TextBlock("K22", WordsText("kids", 22))
M29 == TextBlock("M29", WordsText("cannot", 29))
TruncateCatalogue == {A20, A21, K22, M29}

TruncateInit == InitOn(BlockLists(TruncateCatalogue, MaxBlocks))
TruncateSpec == TruncateInit /\ [][Summarize]_allVars

\* The word bound of a section; evidence lines are not cut and stay under the largest bound.
WordBound(section) ==
  CASE section = SectionAbout -> AboutWords
    [] section = SectionTensions -> TensionWords
    [] section = SectionSecondary -> SecondaryWords
    [] OTHER -> TensionWords

\* The texts the sections are built from, before any cut.
UncutTexts(bs, section) ==
  LET cands == candidatesOf(bs)
      about == slice(SelectSeq(cands, LAMBDA c : Len(c.tags) = 0 \/ "reference" \in Range(c.tags)), 0, AboutLimit)
      tens == slice(SelectSeq(cands, LAMBDA c : Range(c.tags) \cap {"decision", "risk", "constraint", "question"} # {}),
                    0, TensionLimit)
      aud == SelectSeq(cands, LAMBDA c : "audience" \in Range(c.tags))
      cons == SelectSeq(cands, LAMBDA c : "constraint" \in Range(c.tags))
  IN CASE section = SectionAbout -> Range(textsOf(about))
       [] section = SectionTensions -> IF Len(tens) > 0 THEN {join(textsOf(tens), "; ")} ELSE {}
       [] section = SectionSecondary -> {join(textsOf(cs), "; ") : cs \in {aud, cons} \ {<<>>}}
       [] OTHER -> {}

WordsIn(text) == split(text, " ")

\* text is what the claim says uncut becomes under the bound n.
CutOf(text, uncut, n) ==
  LET words == WordsIn(normalize(uncut))
  IN IF Len(words) <= n
     THEN text = normalize(uncut)
     ELSE /\ Len(text) > 0
          /\ Ch(text, Len(text)) = Ellipsis
          /\ WordsIn(SubSeq(text, 1, Len(text) - 1)) = SubSeq(words, 1, n)

\* The section name of the heading above line k.
HeadingName(lines, k) ==
  LET h == lines[SetMax({j \in 1..k : ~startsWith(lines[j], Bullet)})]
  IN SubSeq(h, 1, Len(h) - 1)

BulletTextOf(line) == SubSeq(line, Len(Bullet) + 2, Len(line))

TruncatedLines(lines, bs) ==
  \A k \in BulletLines(lines) :
    LET text == BulletTextOf(lines[k])
        section == HeadingName(lines, k)
    IN /\ Len(WordsIn(text)) <= WordBound(section)
       /\ WordBound(section) <= 28
       /\ section # SectionEvidence => \E uncut \in UncutTexts(bs, section) : CutOf(text, uncut, WordBound(section))
       /\ section = SectionEvidence => Ch(text, Len(text)) # Ellipsis

\* C22: every rendered bullet text has at most its section's bound of words (at most 28);
\* a longer text is cut to its first bound-many whole words plus the marker, a text within
\* the bound is rendered unmarked, and the kept words are whole words of the source.
Truncation == Summarized => TruncatedLines(SummaryLines, blocks)

EndsCut(line) == Ch(line, Len(line)) = Ellipsis
\* A summary holding, for each of the three bounds, a cut line, and a line exactly at its bound.
TruncationWitness ==
  /\ Summarized
  /\ \E k \in BulletLines(SummaryLines) : HeadingName(SummaryLines, k) = SectionAbout /\ EndsCut(SummaryLines[k])
  /\ \E k \in BulletLines(SummaryLines) :
       /\ HeadingName(SummaryLines, k) = SectionSecondary
       /\ ~EndsCut(SummaryLines[k])
       /\ Len(WordsIn(BulletTextOf(SummaryLines[k]))) = SecondaryWords
  /\ \E k \in BulletLines(SummaryLines) : HeadingName(SummaryLines, k) = SectionTensions /\ EndsCut(SummaryLines[k])
  /\ \E k \in BulletLines(SummaryLines) : HeadingName(SummaryLines, k) = SectionSecondary /\ EndsCut(SummaryLines[k])

\* ---------------------------------------------------------------------------
\* C23: duplicate units inside one section (summarize.ts dedupe, 128-138, 225)
\* ---------------------------------------------------------------------------

\* Blocks that repeat a unit: the same sentence in two blocks, and a sentence that is
\* both audience- and constraint-tagged next to one that is audience-tagged only.
D1 == TextBlock("D1", "Must ship. Plain note.")
D2 == TextBlock("D2", "Must  ship. Plain note.")
D3 == TextBlock("D3", "Kids must play. Adults rest.")
RepeatCatalogue == {D1, D2, D3, T1}

RepeatInit == InitOn(BlockLists(RepeatCatalogue, MaxBlocks))
RepeatSpec == RepeatInit /\ [][Summarize]_allVars

\* The unit texts of one rendered bullet line: a combined line joins its units with "; ".
UnitsOfLine(line) ==
  LET parts == split(BulletTextOf(line), ";")
  IN [i \in 1..Len(parts) |-> normalize(parts[i])]

\* The unit texts rendered under the heading of section in the first k lines, in order.
RECURSIVE SectionUnits(_, _, _)
SectionUnits(lines, section, k) ==
  IF k = 0 THEN <<>>
  ELSE SectionUnits(lines, section, k - 1)
       \o (IF startsWith(lines[k], Bullet) /\ HeadingName(lines, k) = section
           THEN UnitsOfLine(lines[k]) ELSE <<>>)

NoRepeat(units) == \A i \in 1..Len(units) : \A j \in 1..Len(units) : i < j => units[i] # units[j]

\* C23: within every section of the summary no unit text (compared after white-space
\* normalization) occurs twice, the combined line of "Key tensions / open questions"
\* included.
NoDuplicateUnits ==
  (Summarized /\ summary.summaryText # FallbackLine) =>
    \A h \in HeadingLines(SummaryLines) :
      NoRepeat(SectionUnits(SummaryLines, HeadingName(SummaryLines, h), Len(SummaryLines)))

\* The part of C23 the code keeps: no two bullet lines of one section have the same text.
NoDuplicateLines ==
  (Summarized /\ summary.summaryText # FallbackLine) =>
    \A k \in BulletLines(SummaryLines) : \A m \in BulletLines(SummaryLines) :
      (k < m /\ HeadingName(SummaryLines, k) = HeadingName(SummaryLines, m)) => SummaryLines[k] # SummaryLines[m]

\* ---------------------------------------------------------------------------
\* C24: the lines of "Secondary considerations" (summarize.ts 197-214)
\* ---------------------------------------------------------------------------

\* The bullet line k of lines holds one unit, and that unit is audience-tagged or was not
\* used in "Key tensions / open questions" above.
OwnLineUnit(lines, k) ==
  LET units == UnitsOfLine(lines[k])
  IN /\ Len(units) = 1
     /\ \/ "audience" \in Range(tagsOf(units[1]))
        \/ units[1] \notin Range(SectionUnits(lines, SectionTensions, k))

\* C24: "Secondary considerations" holds one line per unit; a constraint unit that was
\* already used in "Key tensions / open questions" does not reappear in it.
SecondaryLinePerUnit ==
  (Summarized /\ summary.summaryText # FallbackLine) =>
    \A k \in BulletLines(SummaryLines) :
      HeadingName(SummaryLines, k) = SectionSecondary => OwnLineUnit(SummaryLines, k)

\* ---------------------------------------------------------------------------
\* C25: the residual fallback of the QA responder (Canvas.tsx 586-591)
\* ---------------------------------------------------------------------------

\* q is the residual answer over scope: the fixed line and one citation numbered 1 that
\* holds the first (at most 2) IDs of scope.
IsResidual(q, scope) ==
  /\ q.answer = ResidualLine
  /\ Len(q.citations) = 1
  /\ q.citations[1].n = 1
  /\ q.citations[1].blockIds = SubSeq(scope, 1, IF Len(scope) < 2 THEN Len(scope) ELSE 2)

ResidualOn(norm, scope, answers, q) == (norm # "" /\ Len(answers) = 0) => IsResidual(q, scope)

\* C25: when the intent chain produces no answer line for a non-blank question, the answer
\* is the residual line with one citation numbered 1 holding the first (at most 2) scope IDs.
ResidualFallback ==
  Answered => ResidualOn(NormQuestion, scopeIds, answersOf(NormQuestion, scopeIds, AskedEntries), qa)

\* A shorten or expand question over a summary with bullet lines got the residual answer
\* for a non-empty scope.
ResidualFallbackWitness ==
  /\ Answered
  /\ NormQuestion \in {"shorten it", "expand this"}
  /\ \E k \in 1..Len(SummaryLines) : IsBulletLine(k)
  /\ Len(scopeIds) > 0
  /\ IsResidual(qa, scopeIds)

\* ---------------------------------------------------------------------------
\* C26: the message log across Asks (Canvas.tsx 1132-1193)
\* ---------------------------------------------------------------------------

\* The summary that a question is asked on: the selection summary when there is one.
TargetOf(selection, canvas) == IF selection # NoValue THEN selection ELSE canvas

\* The stored copy of the summary that a question is asked on.
StoredTargetOf(selection, storedSel, storedCan) == IF selection # NoValue THEN storedSel ELSE storedCan

\* after is before extended by the question text and an assistant answer.
Extends(before, after, text) ==
  /\ Len(after) = Len(before) + 2
  /\ SubSeq(after, 1, Len(before)) = before
  /\ after[Len(before) + 1] = userMessage(text)
  /\ after[Len(before) + 2].role = "assistant"
  /\ after[Len(before) + 2] # thinkingMessage

\* C26: an Ask with a non-blank question extends the message log of the active summary by
\* the question and the assistant's answer, keeps every earlier message in its place, and
\* the persisted copy holds the same log (when the storage write succeeds).
MessageLogAppend ==
  [][(AskClick /\ trim(qaQuestion) # "") =>
       /\ Extends(TargetOf(panelSummary, canvasSummary).messages,
                  TargetOf(panelSummary', canvasSummary').messages, trim(qaQuestion))
       /\ ~storageFull =>
            StoredTargetOf(panelSummary, storedSelection', storedCanvas').json.messages
              = TargetOf(panelSummary', canvasSummary').messages]_allVars

\* The part of C26 the handler keeps: the persisted copy holds the log of the summary shown.
MessageLogPersisted ==
  [][(AskClick /\ trim(qaQuestion) # "" /\ ~storageFull) =>
       StoredTargetOf(panelSummary, storedSelection', storedCanvas').json.messages
         = TargetOf(panelSummary', canvasSummary').messages]_allVars

\* ---------------------------------------------------------------------------
\* C27: the responder's reconstruction of the lines (Canvas.tsx 507-517)
\* ---------------------------------------------------------------------------

\* The citation numbers of the spans of spans that start where line k of lines starts.
OwnNumbers(spans, lines, k) == citationNsOf(SelectSeq(spans, LAMBDA sp : sp.start = StartOf(lines, k)))

\* Every entry carries the numbers of its own line's span: one number for a bullet line,
\* none for a heading line.
OwnSpanOnly(entries, spans, lines) ==
  /\ Len(entries) = Len(lines)
  /\ \A k \in 1..Len(lines) :
       /\ entries[k].line = lines[k]
       /\ entries[k].citationNs = OwnNumbers(spans, lines, k)
       /\ startsWith(lines[k], Bullet) => Len(entries[k].citationNs) = 1
       /\ (~startsWith(lines[k], Bullet) /\ lines[k] # FallbackLine) => entries[k].citationNs = <<>>

\* C27: the lines reconstructed from summaryText and spans give every bullet line exactly
\* the citation numbers of its own span and no number to a heading line.
ReconstructionExact ==
  Summarized =>
    OwnSpanOnly(lineEntriesOf(idsOf(blocks), summary.summaryText, summary.spans, summary.citations),
                summary.spans, SummaryLines)

\* A summary in which two neighbouring bullet lines carry different numbers and a heading
\* follows a bullet line.
ReconstructionExactWitness ==
  /\ Summarized
  /\ \E i \in 1..Len(summary.spans) - 1 :
       /\ summary.spans[i].citationNs # summary.spans[i + 1].citationNs
       /\ summary.spans[i + 1].start = summary.spans[i].end + 1
  /\ \E k \in 2..Len(SummaryLines) : ~IsBulletLine(k) /\ IsBulletLine(k - 1)

\* ---------------------------------------------------------------------------
\* C28: the persisted snapshot and the block list (Canvas.tsx 51-64, 159-162; persistence.ts)
\* ---------------------------------------------------------------------------

\* Two blocks read the same: a member that is absent reads as undefined.
SameBlock(a, b) ==
  \A f \in DOMAIN a \cup DOMAIN b :
    IF f = "height"
    THEN (IF f \in DOMAIN a THEN a[f] ELSE Undefined) = (IF f \in DOMAIN b THEN b[f] ELSE Undefined)
    ELSE f \in DOMAIN a /\ f \in DOMAIN b /\ a[f] = b[f]

SameBlocks(as, bs) == Len(as) = Len(bs) /\ \A i \in 1..Len(as) : SameBlock(as[i], bs[i])

\* The snapshot stored holds the list bs, and a reload restores it.
PersistedIs(stored, bs) ==
  /\ loadState(stored) # NoValue
  /\ SameBlocks(loadState(stored).items, bs)
  /\ SameBlocks(initialBlocks(loadState(stored)), bs)

\* The blocks of a mount over a valid snapshot all come from the snapshot.
FromSnapshot(stored, bs) ==
  loadState(stored) # NoValue =>
    {bs[i].id : i \in 1..Len(bs)} \subseteq {loadState(stored).items[i].id : i \in 1..Len(loadState(stored).items)}

\* C28: after every add, move, update and delete the persisted snapshot holds exactly the
\* current block list and a reload restores it in the same order, the empty list included;
\* a mount takes the seed blocks only when there is no valid snapshot.
SnapshotIsBlockList ==
  [][/\ (mounted' /\ ~storageFull') => PersistedIs(storedState', canvasBlocks')
     /\ MountCanvas => FromSnapshot(storedState, canvasBlocks')]_allVars

\* On a canvas restored from the snapshot of T1 and L1, T1 was deleted and a text block was
\* added, moved and edited; the snapshot holds that list and a reload restores it.
SnapshotIsBlockListWitness ==
  /\ mounted
  /\ idsOf(canvasBlocks) \in {<<"L1", id>> : id \in FreshIds}
  /\ canvasBlocks[2].type = "text"
  /\ canvasBlocks[2].x \in Positions
  /\ canvasBlocks[2].text \in EditedTexts
  /\ PersistedIs(storedState, canvasBlocks)

\* The canvas is empty: the snapshot holds the empty list and a reload gives the empty
\* list, not the seed blocks.
SnapshotHoldsEmptyList ==
  /\ mounted
  /\ canvasBlocks = <<>>
  /\ loadState(storedState) # NoValue
  /\ loadState(storedState).items = <<>>
  /\ initialBlocks(loadState(storedState)) = <<>>
  /\ initialBlocks(NoValue) # <<>>

\* A moved image block added by the image tool is on the canvas and in the snapshot.
SnapshotHoldsImage ==
  /\ mounted
  /\ \E i \in 1..Len(canvasBlocks) :
       /\ canvasBlocks[i].type = "image" /\ "height" \in DOMAIN canvasBlocks[i]
       /\ "height" \notin DOMAIN loadState(storedState).items[i]

\* ---------------------------------------------------------------------------
\* C29: rate limiting over /api/summarize and /api/ask (part_002 22-32, 105-109, 186-190)
\* ---------------------------------------------------------------------------

\* The requests among entries that passed the limiter less than a window ago.
PassedInside(entries) == Len(SelectSeq(entries, LAMBDA e : e.passed /\ e.age < RATE_LIMIT_WINDOW_MS))

\* Every entry of entries is a full window old or older.
SilentForWindow(entries) == \A i \in 1..Len(entries) : entries[i].age >= RATE_LIMIT_WINDOW_MS

\* A request of the client under key, to either endpoint, is handled in this step: its
\* log changes and ends with an entry of this instant (a step of the clock leaves none).
RequestOf(key) ==
  /\ requestLog'[key] # requestLog[key]
  /\ Len(requestLog'[key]) > 0
  /\ requestLog'[key][Len(requestLog'[key])].age = 0

\* What the limiter does with a request of the client under key.
LimiterOn(key) ==
  /\ PassedInside(requestLog[key]) >= RATE_LIMIT_MAX =>
       /\ response'.status = 429
       /\ ~serviceCalled'
       /\ response'.error = "Rate limit exceeded"
  /\ SilentForWindow(requestLog[key]) => response'.status # 429
  /\ requestLog'[key][Len(requestLog'[key])].passed = (response'.status # 429)

\* C29: per client, at most RATE_LIMIT_MAX requests pass the limiter inside any time
\* shorter than the window, of both endpoints together; a further request inside it is
\* answered 429 with no validation and no call of the service; after a full window
\* without a request the client's next request passes.
RateLimiting ==
  [][/\ \A key \in ClientKeys : PassedInside(requestLog'[key]) <= RATE_LIMIT_MAX
     /\ \A key \in ClientKeys : RequestOf(key) => LimiterOn(key)]_allVars

\* Ten requests of a client passed inside the window, some of them half a window ago; its
\* eleventh, to /api/ask with a blank question, is answered 429 and the service is not called.
RateLimitingWitness ==
  /\ requestCount = RATE_LIMIT_MAX + 1
  /\ PassedInside(requestLog["10.0.0.1"]) = RATE_LIMIT_MAX
  /\ \E i \in 1..Len(requestLog["10.0.0.1"]) : requestLog["10.0.0.1"][i].age = TickMs
  /\ ~requestLog["10.0.0.1"][Len(requestLog["10.0.0.1"])].passed
  /\ request \in {b \in AskBodies : member(b, "question") = JsonString(" ")}
  /\ response.status = 429
  /\ ~serviceCalled

\* ---------------------------------------------------------------------------
\* C30: the open panel holds one summary (Canvas.tsx 182-225, 830-859, 908-917, 1049-1057)
\* ---------------------------------------------------------------------------

\* Exactly one of the selection summary and the canvas summary is set.
OneSummarySet == (panelSummary # NoValue) # (canvasSummary # NoValue)

\* C30: whenever the panel is open, exactly one of the selection summary and the canvas
\* summary is set, so the summary shown is the one that answers the questions.
OpenPanelHoldsOne == panelOpen => OneSummarySet

\* The panel is open on a selection summary that has answered a question, while the
\* storage holds a canvas summary that a reload would restore next to it.
OpenPanelHoldsOneWitness ==
  /\ panelOpen
  /\ panelSummary # NoValue
  /\ Len(panelSummary.messages) > 0
  /\ canvasSummary = NoValue
  /\ restoreCanvas(storedCanvas) # NoValue

\* After a reload both summaries are set, with the panel closed.
BothRestoredClosed == ~panelOpen /\ panelSummary # NoValue /\ canvasSummary # NoValue

====
